---- MODULE Spec2Model ----
(***************************************************************************)
(* A model of the "command center" repository:                             *)
(*   - the scanner CLI (loadData / findTaskById / clearCurrentFlags /      *)
(*     cmdScan / cmdMarkDone / cmdSetCurrent) acting on the data.json      *)
(*     document,                                                           *)
(*   - the checklist parsers (parsePRDFile, parseChecklists, parsePRD),    *)
(*   - the section merge of the PRD migration (slugify, migrateRepo),      *)
(*   - buildProjectData of both API variants and the sort of the           *)
(*     dynamic-discovery handler.                                          *)
(* Each part has its own specification; the variables of the other parts   *)
(* stay at their idle values.                                              *)
(***************************************************************************)
EXTENDS Integers, Sequences, FiniteSets, TLC

VARIABLES
    store,      \* the document held in data.json
    prev,       \* the document data.json held before the last command
    last,       \* the last CLI command: [op, id, exit]
    now,        \* the clock read by new Date()
    input,      \* the arguments of the function a functional specification applies
    output,     \* what that function returned: [op, value]
    run         \* a handler or command-line processes under way: positions and locals

cliVars == <<store, prev, last, now>>

funVars == <<input, output, run>>

vars == <<store, prev, last, now, input, output, run>>

(***************************************************************************)
(* Bounds of the model.                                                    *)
(***************************************************************************)
MaxNodes == 3       \* milestones + tasks + subtasks of a small initial document
MaxSiblings == 3    \* subtasks of the one task of a sibling-list document
MaxClock == 2       \* commands run against one initial document
MaxLines == 3       \* lines of a markdown file

\* the ids carried by milestones, tasks and subtasks (not assumed unique)
Ids == {1, 2, 3}
\* an id no node carries
MissingId == 0
\* the ids a command is called with
LookupIds == Ids \cup {MissingId}

Min(a, b) == IF a < b THEN a ELSE b

(***************************************************************************)
(* The document.  A milestone without a `tasks` field and one with an      *)
(* empty list are both written tasks = <<>>: every reader in the scanner   *)
(* guards with `if (milestone.tasks)` or `?.length` and then iterates, so  *)
(* the two behave alike.  `current` absent (after `delete`) and            *)
(* current:false are both written FALSE: every reader tests truthiness.    *)
(* completedAt = 0 stands for "no completedAt field".                      *)
(***************************************************************************)
\* a document starts with nothing done and no focus set; the commands set the flags
NodeLabels == [id : Ids, done : {FALSE}, current : {FALSE}]

MkSubtask(l) ==
    [id |-> l.id, done |-> l.done, current |-> l.current, completedAt |-> 0]

MkTask(l, subs) ==
    [id |-> l.id, done |-> l.done, current |-> l.current, completedAt |-> 0,
     subtasks |-> subs]

MkMilestone(l, tasks) ==
    [id |-> l.id, done |-> l.done, current |-> l.current, completedAt |-> 0,
     tasks |-> tasks]

\* the subtask lists of exactly n subtasks
SubtaskLists(n) == {[i \in 1..n |-> MkSubtask(f[i])] : f \in [1..n -> NodeLabels]}

\* the tasks made of exactly n nodes (the task and its subtasks)
TasksOfSize(n) ==
    {MkTask(l, subs) : l \in NodeLabels, subs \in SubtaskLists(n - 1)}

RECURSIVE TaskLists(_)
\* the task lists made of exactly n nodes
TaskLists(n) ==
    IF n = 0 THEN {<<>>}
    ELSE UNION {{<<t>> \o rest : t \in TasksOfSize(k), rest \in TaskLists(n - k)} :
                k \in 1..n}

\* the milestones made of exactly n nodes (the milestone, its tasks, their subtasks)
MilestonesOfSize(n) ==
    {MkMilestone(l, ts) : l \in NodeLabels, ts \in TaskLists(n - 1)}

RECURSIVE MilestoneLists(_)
\* the milestone lists made of exactly n nodes
MilestoneLists(n) ==
    IF n = 0 THEN {<<>>}
    ELSE UNION {{<<m>> \o rest : m \in MilestonesOfSize(k),
                                 rest \in MilestoneLists(n - k)} : k \in 1..n}

\* project ids are positional: project i of a document has id i
MkProjects(mss) == [i \in 1..Len(mss) |-> [id |-> i, milestones |-> mss[i]]]

MissingProject == 0

\* a project id that no project of a document carries
NoSuchProject == 3

MkDoc(projects) ==
    [meta |-> [lastUpdated |-> 0, lastScanType |-> "manual"], projects |-> projects]

\* the ids of a document's nodes in depth-first order
IdsOfSubtasks(subtasks) == [s \in DOMAIN subtasks |-> subtasks[s].id]

RECURSIVE IdsOfTasks(_)
IdsOfTasks(tasks) ==
    IF tasks = <<>> THEN <<>>
    ELSE <<Head(tasks).id>> \o IdsOfSubtasks(Head(tasks).subtasks) \o IdsOfTasks(Tail(tasks))

RECURSIVE IdsOfMilestones(_)
IdsOfMilestones(milestones) ==
    IF milestones = <<>> THEN <<>>
    ELSE <<Head(milestones).id>> \o IdsOfTasks(Head(milestones).tasks)
             \o IdsOfMilestones(Tail(milestones))

\* The commands compare ids for equality only, so renaming the ids of a document
\* changes nothing: one document per naming is kept, the one whose ids appear in
\* the order 1, 2, 3 when read depth-first.
Canonical(ids) ==
    \A i \in DOMAIN ids : \/ ids[i] = 1
                          \/ \E j \in 1..(i - 1) : ids[j] = ids[i] - 1

\* two projects (either may have no milestone) of at most MaxNodes nodes together
SmallDocuments ==
    UNION {{<<ms1, ms2>> : ms1 \in MilestoneLists(k[1]), ms2 \in MilestoneLists(k[2])} :
           k \in {x \in (0..MaxNodes) \X (0..MaxNodes) : x[1] + x[2] <= MaxNodes}}

\* one milestone with one task with up to MaxSiblings subtasks, and an empty project
SiblingDocuments ==
    {<< <<MkMilestone(lm, <<MkTask(lt, subs)>>)>>, <<>> >> :
        lm \in NodeLabels, lt \in NodeLabels,
        subs \in UNION {SubtaskLists(k) : k \in 0..MaxSiblings}}

\* two projects of one milestone with one task each
TwinDocuments ==
    {<< <<MkMilestone(lm1, <<MkTask(lt1, <<>>)>>)>>,
        <<MkMilestone(lm2, <<MkTask(lt2, <<>>)>>)>> >> :
        lm1 \in NodeLabels, lt1 \in NodeLabels, lm2 \in NodeLabels, lt2 \in NodeLabels}

\* the documents data.json may hold when the first command starts
Documents ==
    {MkDoc(MkProjects(mss)) :
        mss \in {x \in SmallDocuments \cup SiblingDocuments \cup TwinDocuments :
                    Canonical(IdsOfMilestones(x[1]) \o IdsOfMilestones(x[2]))}}

(***************************************************************************)
(* scanner.js: helpers                                                     *)
(***************************************************************************)
\* the result of a lookup: the kind of node and its place in the document
\* (project p, milestone m, task t, subtask s; 0 where the level is not reached)
NoMatch == [type |-> "none", p |-> 0, m |-> 0, t |-> 0, s |-> 0]

RECURSIVE FindInSubtasks(_, _, _)
\* the first subtask at or after s whose id is taskId, 0 when there is none
FindInSubtasks(subtasks, taskId, s) ==
    IF s > Len(subtasks) THEN 0
    ELSE IF subtasks[s].id = taskId THEN s
    ELSE FindInSubtasks(subtasks, taskId, s + 1)

RECURSIVE FindInTasks(_, _, _)
FindInTasks(tasks, taskId, t) ==
    IF t > Len(tasks) THEN NoMatch
    ELSE IF tasks[t].id = taskId THEN [NoMatch EXCEPT !.type = "task", !.t = t]
    ELSE LET s == FindInSubtasks(tasks[t].subtasks, taskId, 1)
         IN  IF s > 0 THEN [NoMatch EXCEPT !.type = "subtask", !.t = t, !.s = s]
             ELSE FindInTasks(tasks, taskId, t + 1)

RECURSIVE FindInMilestones(_, _, _)
FindInMilestones(milestones, taskId, m) ==
    IF m > Len(milestones) THEN NoMatch
    ELSE IF milestones[m].id = taskId THEN [NoMatch EXCEPT !.type = "milestone", !.m = m]
    ELSE LET f == FindInTasks(milestones[m].tasks, taskId, 1)
         IN  IF f.type # "none" THEN [f EXCEPT !.m = m]
             ELSE FindInMilestones(milestones, taskId, m + 1)

RECURSIVE FindInProjects(_, _, _)
FindInProjects(projects, taskId, p) ==
    IF p > Len(projects) THEN NoMatch
    ELSE LET f == FindInMilestones(projects[p].milestones, taskId, 1)
         IN  IF f.type # "none" THEN [f EXCEPT !.p = p]
             ELSE FindInProjects(projects, taskId, p + 1)

\* depth-first: project, milestone, its tasks, each task's subtasks
findTaskById(data, taskId) == FindInProjects(data.projects, taskId, 1)

ClearSubtask(subtask) == [subtask EXCEPT !.current = FALSE]

ClearTask(task) ==
    [task EXCEPT !.current = FALSE,
                 !.subtasks = [s \in DOMAIN task.subtasks |-> ClearSubtask(task.subtasks[s])]]

ClearMilestone(milestone) ==
    [milestone EXCEPT !.current = FALSE,
                      !.tasks = [t \in DOMAIN milestone.tasks |-> ClearTask(milestone.tasks[t])]]

clearCurrentFlags(data) ==
    [data EXCEPT !.projects =
        [p \in DOMAIN data.projects |->
            [data.projects[p] EXCEPT !.milestones =
                [m \in DOMAIN data.projects[p].milestones |->
                    ClearMilestone(data.projects[p].milestones[m])]]]]

\* data.meta.lastUpdated = new Date(); writeFileSync: the document written
saveData(data, ts) == [data EXCEPT !.meta.lastUpdated = ts]

\* found.item of a lookup result
ItemOf(data, found) ==
    LET ms == data.projects[found.p].milestones[found.m]
    IN  IF found.type = "milestone" THEN ms
        ELSE IF found.type = "task" THEN ms.tasks[found.t]
        ELSE ms.tasks[found.t].subtasks[found.s]

\* data with found.item replaced by item
WithItem(data, found, item) ==
    IF found.type = "milestone"
    THEN [data EXCEPT !.projects[found.p].milestones[found.m] = item]
    ELSE IF found.type = "task"
    THEN [data EXCEPT !.projects[found.p].milestones[found.m].tasks[found.t] = item]
    ELSE [data EXCEPT !.projects[found.p].milestones[found.m].tasks[found.t]
                          .subtasks[found.s] = item]

(***************************************************************************)
(* scanner.js: commands.  Each command is a function from the document on  *)
(* disk and the clock to the exit status and the document on disk          *)
(* afterwards (process.exit(1) comes before any write).                    *)
(***************************************************************************)
\* for (const project of projectsToScan): the scan reads the working copies
\* and prints; the projects it visits
projectsToScan(data, projectId) ==
    IF projectId # MissingProject
    THEN {p \in DOMAIN data.projects : data.projects[p].id = projectId}
    ELSE DOMAIN data.projects

\* the scan mutant: the milestones of the projects scanned are brought up to date
cmdScan_UpdatesMilestones(data, projectId, ts) ==
    [exit |-> 0,
     data |-> saveData(
         [data EXCEPT !.meta.lastScanType = "auto",
                      !.projects = [p \in DOMAIN data.projects |->
                          IF p \in projectsToScan(data, projectId)
                          THEN [data.projects[p] EXCEPT !.milestones =
                                   [m \in DOMAIN @ |-> [@[m] EXCEPT !.done = TRUE]]]
                          ELSE data.projects[p]]], ts)]

cmdScan(data, projectId, ts) ==
    [exit |-> 0,
     data |-> saveData([data EXCEPT !.meta.lastScanType = "auto"], ts)]

\* a variant of AutoAdvance that also advances from a task to the next task
AutoAdvance_AcrossTasks(data, found, taskId) ==
    IF found.type = "subtask"
    THEN LET subtasks == data.projects[found.p].milestones[found.m].tasks[found.t].subtasks
             idx == FindInSubtasks(subtasks, taskId, 1)
         IN  IF idx < Len(subtasks)
             THEN [data EXCEPT !.projects[found.p].milestones[found.m].tasks[found.t]
                                   .subtasks[idx + 1].current = TRUE]
             ELSE data
    ELSE IF found.type = "task"
              /\ found.t < Len(data.projects[found.p].milestones[found.m].tasks)
    THEN [data EXCEPT !.projects[found.p].milestones[found.m].tasks[found.t + 1]
                          .current = TRUE]
    ELSE data

\* "Auto-advance to next item": the sibling after the marked subtask
AutoAdvance(data, found, taskId) ==
    IF found.type = "subtask"
    THEN LET subtasks == data.projects[found.p].milestones[found.m].tasks[found.t].subtasks
             \* findIndex counts from 0; idx counts from 1
             idx == FindInSubtasks(subtasks, taskId, 1)
         IN  IF idx < Len(subtasks)
             THEN [data EXCEPT !.projects[found.p].milestones[found.m].tasks[found.t]
                                   .subtasks[idx + 1].current = TRUE]
             ELSE data
    ELSE data

\* a variant of cmdMarkDone that saves before it reports the missing task
cmdMarkDone_SavesWhenNotFound(data, taskId, ts) ==
    LET found == findTaskById(data, taskId)
    IN  IF found.type = "none" THEN [exit |-> 1, data |-> saveData(data, ts)]
        ELSE LET item == ItemOf(data, found)
                 marked == WithItem(data, found,
                               [item EXCEPT !.done = TRUE, !.completedAt = ts,
                                            !.current = FALSE])
             IN  [exit |-> 0, data |-> saveData(AutoAdvance(marked, found, taskId), ts)]

cmdMarkDone(data, taskId, ts) ==
    LET found == findTaskById(data, taskId)
    IN  IF found.type = "none" THEN [exit |-> 1, data |-> data]
        ELSE LET item == ItemOf(data, found)
                 marked == WithItem(data, found,
                               [item EXCEPT !.done = TRUE, !.completedAt = ts,
                                            !.current = FALSE])
             IN  [exit |-> 0, data |-> saveData(AutoAdvance(marked, found, taskId), ts)]

\* milestone.tasks.some(t => t.id === taskId || t.subtasks.some(s => s.id === taskId))
hasTask(milestone, taskId) ==
    \E t \in DOMAIN milestone.tasks :
        \/ milestone.tasks[t].id = taskId
        \/ \E s \in DOMAIN milestone.tasks[t].subtasks :
               milestone.tasks[t].subtasks[s].id = taskId

\* the inner loop over one project's milestones: the first milestone with the
\* task becomes current, and `break` leaves this loop only
MarkInProject(project, taskId) ==
    LET hits == {m \in DOMAIN project.milestones : hasTask(project.milestones[m], taskId)}
    IN  IF hits = {} THEN project
        ELSE LET m == CHOOSE x \in hits : \A y \in hits : x <= y
             IN  [project EXCEPT !.milestones[m].current = TRUE]

\* "Find and mark parent milestone": the outer loop runs over every project
MarkParentMilestone(data, taskId) ==
    [data EXCEPT !.projects =
        [p \in DOMAIN data.projects |-> MarkInProject(data.projects[p], taskId)]]

cmdSetCurrent(data, taskId, ts) ==
    LET found == findTaskById(data, taskId)
    IN  IF found.type = "none" THEN [exit |-> 1, data |-> data]
        ELSE LET cleared == clearCurrentFlags(data)
                 set == WithItem(cleared, found,
                            [ItemOf(cleared, found) EXCEPT !.current = TRUE])
                 marked == IF found.type \in {"task", "subtask"}
                           THEN MarkParentMilestone(set, taskId)
                           ELSE set
             IN  [exit |-> 0, data |-> saveData(marked, ts)]

(***************************************************************************)
(* The scanner as a state machine: one action per command line.            *)
(***************************************************************************)
\* the functional specifications do not run: nothing given, nothing returned
NoRun == [pc |-> "none"]

FunIdle == input = <<>> /\ output = [op |-> "none"] /\ run = NoRun

Init ==
    /\ store \in Documents
    /\ prev = store
    /\ last = [op |-> "none", id |-> MissingId, exit |-> 0]
    /\ now = 1
    /\ FunIdle

Ran(op, id, r) ==
    /\ store' = r.data
    /\ prev' = store
    /\ last' = [op |-> op, id |-> id, exit |-> r.exit]
    /\ now' = now + 1
    /\ UNCHANGED funVars

\* node scanner.js [--project <id>]
CmdScan(projectId) ==
    /\ now <= MaxClock
    /\ Ran("scan", projectId, cmdScan(store, projectId, now))

\* node scanner.js --mark-done <id>
CmdMarkDone(taskId) ==
    /\ now <= MaxClock
    /\ Ran("mark-done", taskId, cmdMarkDone(store, taskId, now))

\* node scanner.js --set-current <id>
CmdSetCurrent(taskId) ==
    /\ now <= MaxClock
    /\ Ran("set-current", taskId, cmdSetCurrent(store, taskId, now))

Next ==
    \/ \E projectId \in {MissingProject, 1, NoSuchProject} : CmdScan(projectId)
    \/ \E taskId \in LookupIds : CmdMarkDone(taskId)
    \/ \E taskId \in LookupIds : CmdSetCurrent(taskId)

Spec == Init /\ [][Next]_vars

(***************************************************************************)
(* Vocabulary of the claims about the scanner.                             *)
(***************************************************************************)
Place(type, p, m, t, s) == [type |-> type, p |-> p, m |-> m, t |-> t, s |-> s]

MilestonePlaces(d) ==
    UNION {{Place("milestone", p, m, 0, 0) : m \in DOMAIN d.projects[p].milestones} :
           p \in DOMAIN d.projects}

TaskPlaces(d) ==
    UNION {{Place("task", x.p, x.m, t, 0) :
                t \in DOMAIN d.projects[x.p].milestones[x.m].tasks} :
           x \in MilestonePlaces(d)}

SubtaskPlaces(d) ==
    UNION {{Place("subtask", x.p, x.m, x.t, s) :
                s \in DOMAIN d.projects[x.p].milestones[x.m].tasks[x.t].subtasks} :
           x \in TaskPlaces(d)}

\* every milestone, task and subtask of a document
Places(d) == MilestonePlaces(d) \cup TaskPlaces(d) \cup SubtaskPlaces(d)

\* the nodes whose current flag is true
CurrentPlaces(d) == {x \in Places(d) : ItemOf(d, x).current}

\* x is visited before y by a depth-first walk (a node before its children)
DepthFirstBefore(x, y) ==
    \/ x.p < y.p
    \/ x.p = y.p /\ x.m < y.m
    \/ x.p = y.p /\ x.m = y.m /\ x.t < y.t
    \/ x.p = y.p /\ x.m = y.m /\ x.t = y.t /\ x.s < y.s

Matches(d, id) == {x \in Places(d) : ItemOf(d, x).id = id}

\* the first depth-first match of id (the document has one)
FirstMatch(d, id) ==
    CHOOSE x \in Matches(d, id) : \A y \in Matches(d, id) \ {x} : DepthFirstBefore(x, y)

\* the milestone that holds x (x itself when x is a milestone)
OwningMilestone(x) == Place("milestone", x.p, x.m, 0, 0)

OwningTask(x) == Place("task", x.p, x.m, x.t, 0)

\* the sibling list of a subtask
SiblingsOf(d, x) == d.projects[x.p].milestones[x.m].tasks[x.t].subtasks

\* the last command was op, called with an id the document held, and it exited 0
Did(op) == last.op = op /\ last.exit = 0 /\ Matches(prev, last.id) # {}

\* the node the last command matched
Target == FirstMatch(prev, last.id)

(***************************************************************************)
(* Claims.                                                                 *)
(***************************************************************************)

\* C1: after Mark-done(id) of a subtask: if a later sibling is not done, exactly one
\* subtask of the sibling list is current and it is the next sibling; if the marked
\* subtask is the last of its list, no subtask of the list is current.
C1_MarkDoneAdvancesToNextSibling ==
    (Did("mark-done") /\ Target.type = "subtask") =>
        LET before == SiblingsOf(prev, Target)
            after == SiblingsOf(store, Target)
            cur == {j \in DOMAIN after : after[j].current}
        IN  /\ (\E j \in DOMAIN before : j > Target.s /\ ~before[j].done)
                   => cur = {Target.s + 1}
            /\ Target.s = Len(before) => cur = {}

\* C2: after Set-current(id) exactly the nodes on the path from the owning milestone
\* down to the matched node are current (one per level), and no other node is.
C2_SetCurrentMarksWholePath ==
    Did("set-current") =>
        CurrentPlaces(store) =
            {OwningMilestone(Target)}
            \cup (IF Target.type \in {"task", "subtask"} THEN {OwningTask(Target)} ELSE {})
            \cup {Target}

\* C3: every reachable document has at most one current task per milestone and at
\* most one current subtask per task (the initial documents have no current node).
C3_AtMostOneCurrentChild ==
    /\ \A x \in MilestonePlaces(store) :
           Cardinality({y \in TaskPlaces(store) \cap CurrentPlaces(store) :
                            OwningMilestone(y) = x}) <= 1
    /\ \A x \in TaskPlaces(store) :
           Cardinality({y \in SubtaskPlaces(store) \cap CurrentPlaces(store) :
                            OwningTask(y) = x}) <= 1

\* C4: Mark-done and Set-current with an id no node carries exit non-zero and leave
\* data.json, lastUpdated included, as it was.
C4_NotFoundWritesNothing ==
    (last.op \in {"mark-done", "set-current"} /\ Matches(prev, last.id) = {}) =>
        (last.exit = 1 /\ store = prev)

\* a not-found command run against a document an earlier command has written
C4_Witness ==
    /\ last.op \in {"mark-done", "set-current"}
    /\ Matches(prev, last.id) = {}
    /\ Places(prev) # {}
    /\ prev.meta.lastUpdated > 0
    /\ now > prev.meta.lastUpdated

C6_SetCurrentMarksMatchAndOwner ==
    Did("set-current") =>
        CurrentPlaces(store) =
            {Target} \cup (IF Target.type \in {"task", "subtask"}
                           THEN {OwningMilestone(Target)} ELSE {})

\* done flags agree: a milestone with tasks is done exactly when all its tasks are,
\* a task with subtasks exactly when all its subtasks are
DoneAgrees(d) ==
    /\ \A x \in MilestonePlaces(d) :
           LET tasks == ItemOf(d, x).tasks
           IN  tasks # <<>> => (ItemOf(d, x).done <=> \A t \in DOMAIN tasks : tasks[t].done)
    /\ \A x \in TaskPlaces(d) :
           LET subtasks == ItemOf(d, x).subtasks
           IN  subtasks # <<>> =>
                   (ItemOf(d, x).done <=> \A k \in DOMAIN subtasks : subtasks[k].done)

\* C21: Mark-done keeps the done flags in agreement: from a document where every
\* milestone is done exactly when all its tasks are (and every task exactly when all
\* its subtasks are), it leads to such a document; marking the last task that is not
\* done leaves its milestone done.
\* (stated for the marks of a node without children, the marks that meet no
\* question of what the done flag of a parent marked by hand should be)
C21_MarkDoneKeepsDoneAgreement ==
    (/\ last.op = "mark-done" /\ last.exit = 0
     /\ DoneAgrees(prev)
     /\ LET x == FirstMatch(prev, last.id)
        IN  \/ x.type = "subtask"
            \/ x.type = "task" /\ ItemOf(prev, x).subtasks = <<>>)
        => DoneAgrees(store)

\* C27: no milestone, task or subtask of a reachable document is both done and
\* current (the first document has no such node).
C27_NeverDoneAndCurrent ==
    \A x \in Places(store) : ~(ItemOf(store, x).done /\ ItemOf(store, x).current)

\* C28: the scan, with a project id, without one or with one no project carries,
\* leaves the projects as they were and changes meta.lastScanType and
\* meta.lastUpdated only.
C28_ScanChangesMetaOnly ==
    last.op = "scan" =>
        /\ store.projects = prev.projects
        /\ store = [prev EXCEPT !.meta.lastScanType = "auto", !.meta.lastUpdated = now - 1]

C28_Witness ==
    /\ last.op = "scan" /\ last.id = NoSuchProject
    /\ CurrentPlaces(prev) # {}
    /\ prev.meta.lastScanType = "manual" /\ store.meta.lastScanType = "auto"
    /\ store.meta.lastUpdated > prev.meta.lastUpdated

(***************************************************************************)
(* Text.  A string is a sequence of one-character strings; "\n" ends a     *)
(* line.  The regular expressions of the parsers are matched as the        *)
(* JavaScript engine matches them: greedy, giving back characters when the *)
(* rest of the pattern cannot match.                                       *)
(***************************************************************************)
\* \s
IsSpace(c) == c \in {" ", "\n"}

\* . (any character but a line terminator)
IsDot(c) == c # "\n"

\* String.prototype.toLowerCase on the letters of the model
ToLower(c) ==
    CASE c = "X" -> "x"
      [] c = "T" -> "t"
      [] c = "M" -> "m"
      [] c = "D" -> "d"
      [] c = "H" -> "h"
      [] OTHER -> c

LowerCase(str) == [k \in DOMAIN str |-> ToLower(str[k])]

\* the first position at or after i that holds no white space (Len + 1 when none)
SkipWs(str, i) ==
    CHOOSE j \in i..(Len(str) + 1) :
        /\ j = Len(str) + 1 \/ ~IsSpace(str[j])
        /\ \A k \in i..(j - 1) : IsSpace(str[k])

\* the first position at or after i that holds "\n" (Len + 1 when none)
LineEnd(str, i) ==
    CHOOSE j \in i..(Len(str) + 1) :
        /\ j = Len(str) + 1 \/ str[j] = "\n"
        /\ \A k \in i..(j - 1) : str[k] # "\n"

\* String.prototype.trim
Trim(str) ==
    LET keep == {k \in DOMAIN str : ~IsSpace(str[k])}
    IN  IF keep = {} THEN <<>>
        ELSE LET a == CHOOSE x \in keep : \A y \in keep : x <= y
                 b == CHOOSE x \in keep : \A y \in keep : y <= x
             IN  SubSeq(str, a, b)

RECURSIVE Split(_)
\* content.split('\n')
Split(str) ==
    LET nl == {k \in DOMAIN str : str[k] = "\n"}
    IN  IF nl = {} THEN <<str>>
        ELSE LET k == CHOOSE x \in nl : \A y \in nl : x <= y
             IN  <<SubSeq(str, 1, k - 1)>> \o Split(SubSeq(str, k + 1, Len(str)))

RECURSIVE Join(_)
\* the file whose lines are `lines`
Join(lines) ==
    IF lines = <<>> THEN <<>>
    ELSE IF Len(lines) = 1 THEN lines[1]
    ELSE lines[1] \o <<"\n">> \o Join(Tail(lines))

NoRegexMatch == [ok |-> FALSE, mark |-> " ", text |-> <<>>, end |-> 0]

\* /^[\s]*[-*]\s*\[([ xX])\]\s*(.+)/ tried at position start of str (a line start).
\* [\s]* and the first \s* must run up to the bullet and up to the bracket.  The last
\* \s* runs to the first character that is no white space and (.+) takes the rest of
\* that line; when no character is left, \s* gives back white space until (.+) finds
\* one character that is no line terminator.  `end` is the position after the match.
CheckMatch(str, start) ==
    LET n == Len(str)
        b == SkipWs(str, start)
    IN  IF ~(b <= n /\ str[b] \in {"-", "*"}) THEN NoRegexMatch
        ELSE LET o == SkipWs(str, b + 1)
             IN  IF ~(o + 2 <= n /\ str[o] = "[" /\ str[o + 1] \in {" ", "x", "X"}
                                 /\ str[o + 2] = "]")
                 THEN NoRegexMatch
                 ELSE LET a == o + 3
                          j == SkipWs(str, a)
                          back == {k \in a..n : IsDot(str[k])}
                      IN  IF j <= n
                          THEN [ok |-> TRUE, mark |-> str[o + 1],
                                text |-> SubSeq(str, j, LineEnd(str, j) - 1),
                                end |-> LineEnd(str, j)]
                          ELSE IF back = {} THEN NoRegexMatch
                          ELSE LET k == CHOOSE x \in back : \A y \in back : y <= x
                               IN  [ok |-> TRUE, mark |-> str[o + 1],
                                    text |-> SubSeq(str, k, LineEnd(str, k) - 1),
                                    end |-> LineEnd(str, k)]

\* the number of "#" a string starts with
Hashes(str) ==
    CHOOSE h \in 0..Len(str) :
        /\ \A k \in 1..h : str[k] = "#"
        /\ h = Len(str) \/ str[h + 1] # "#"

\* /^#{lo,3}\s+(.+)/ on one line: lo to 3 "#", white space, the rest of the line;
\* when only white space follows, \s+ gives its last character to (.+)
HeadingMatch(line, lo) ==
    LET n == Len(line)
        h == Hashes(line)
        w == SkipWs(line, h + 1)
    IN  IF ~(lo <= h /\ h <= 3 /\ w > h + 1) THEN NoRegexMatch
        ELSE IF w <= n
        THEN [ok |-> TRUE, mark |-> " ", text |-> SubSeq(line, w, n), end |-> h]
        ELSE IF w - (h + 1) >= 2
        THEN [ok |-> TRUE, mark |-> " ", text |-> SubSeq(line, n, n), end |-> h]
        ELSE NoRegexMatch

\* /^\|[^|]*\|([^|]+)\|[^|]*\|\s*\[([ xX])\]\s*\|/ on one line: the line starts with
\* a pipe, the second cell is captured, the fourth cell holds the bracketed mark
TableMatch(line) ==
    LET n == Len(line)
        pipes == {k \in DOMAIN line : line[k] = "|"}
        Nth(i) == CHOOSE k \in pipes : Cardinality({x \in pipes : x < k}) = i - 1
    IN  IF ~(n >= 1 /\ line[1] = "|" /\ Cardinality(pipes) >= 5) THEN NoRegexMatch
        ELSE LET p2 == Nth(2)
                 p3 == Nth(3)
                 p4 == Nth(4)
                 p5 == Nth(5)
                 o == SkipWs(line, p4 + 1)
             IN  IF /\ p3 > p2 + 1
                    /\ o + 2 < p5
                    /\ line[o] = "["
                    /\ line[o + 1] \in {" ", "x", "X"}
                    /\ line[o + 2] = "]"
                    /\ SkipWs(line, o + 3) = p5
                 THEN [ok |-> TRUE, mark |-> line[o + 1],
                       text |-> SubSeq(line, p2 + 1, p3 - 1), end |-> p5 + 1]
                 ELSE NoRegexMatch

(***************************************************************************)
(* The three checklist parsers.                                            *)
(***************************************************************************)
Min1(S) == CHOOSE x \in S : \A y \in S : x <= y

RECURSIVE ExecAll(_, _)
\* while ((match = checklistRegex.exec(content)) !== null): the flags gm make ^ match
\* at every line start and the search go on from the end of the last match
ExecAll(str, from) ==
    LET starts == {k \in from..Len(str) :
                      /\ k = 1 \/ str[k - 1] = "\n"
                      /\ CheckMatch(str, k).ok}
    IN  IF starts = {} THEN <<>>
        ELSE LET mt == CheckMatch(str, Min1(starts))
             IN  <<[done |-> ToLower(mt.mark) = "x", text |-> Trim(mt.text)]>>
                     \o ExecAll(str, mt.end)

NoFile == <<"(no file)">>

\* scanner.js: the checklist items of a PRD file; null when the file does not exist
parsePRDFile(content) ==
    IF content = NoFile THEN [found |-> FALSE, checklistItems |-> <<>>,
                              totalItems |-> 0, completedItems |-> 0]
    ELSE LET items == ExecAll(content, 1)
         IN  [found |-> TRUE, checklistItems |-> items, totalItems |-> Len(items),
              completedItems |-> Cardinality({k \in DOMAIN items : items[k].done})]

\* fileName.replace(/\.md$/i, '').replace(/[-_]/g, ' ')
DefaultHeading(fileName) ==
    LET n == Len(fileName)
        stem == IF n >= 3 /\ LowerCase(SubSeq(fileName, n - 2, n)) = <<".", "m", "d">>
                THEN SubSeq(fileName, 1, n - 3) ELSE fileName
    IN  [k \in DOMAIN stem |-> IF stem[k] \in {"-", "_"} THEN " " ELSE stem[k]]

RECURSIVE ChecklistLoop(_, _, _)
\* api/projects.js, both variants: the loop of parseChecklists over the lines from k on
ChecklistLoop(lines, k, currentHeading) ==
    IF k > Len(lines) THEN <<>>
    ELSE LET headingMatch == HeadingMatch(lines[k], 1)
             heading == IF headingMatch.ok THEN Trim(headingMatch.text) ELSE currentHeading
             checkMatch == CheckMatch(lines[k], 1)
         IN  (IF checkMatch.ok
              THEN <<[done |-> ToLower(checkMatch.mark) = "x",
                      name |-> Trim(checkMatch.text), section |-> heading]>>
              ELSE <<>>)
             \o ChecklistLoop(lines, k + 1, heading)

parseChecklists(content, fileName) ==
    ChecklistLoop(Split(content), 1, DefaultHeading(fileName))

NoSection == [heading |-> <<>>, level |-> 0, tasks |-> <<>>, source |-> <<>>]

\* "Save previous section if it has tasks"
PushSection(sections, currentSection) ==
    IF currentSection # NoSection /\ Len(currentSection.tasks) > 0
    THEN Append(sections, currentSection) ELSE sections

\* "Skip table headers and dividers"
IsTableTask(taskText) ==
    /\ taskText # <<>>
    /\ ~(\A k \in DOMAIN taskText : taskText[k] = "-" \/ IsSpace(taskText[k]))
    /\ LowerCase(taskText) # <<"t", "a", "s", "k">>

RECURSIVE PRDLoop(_, _, _, _, _)
\* migrate-prd-to-tasks.js: the loop of parsePRD over the lines from k on;
\* currentSection = NoSection stands for null
PRDLoop(lines, k, sections, currentSection, fileName) ==
    IF k > Len(lines) THEN PushSection(sections, currentSection)
    ELSE LET line == lines[k]
             headingMatch == HeadingMatch(line, 2)
             checkMatch == CheckMatch(line, 1)
             tableMatch == TableMatch(line)
             WithTask(t) == [currentSection EXCEPT !.tasks = Append(@, t)]
         IN  IF headingMatch.ok
             THEN PRDLoop(lines, k + 1, PushSection(sections, currentSection),
                          [heading |-> Trim(headingMatch.text),
                           level |-> Hashes(line), tasks |-> <<>>, source |-> fileName],
                          fileName)
             ELSE IF checkMatch.ok /\ currentSection # NoSection
             THEN PRDLoop(lines, k + 1, sections,
                          WithTask([done |-> ToLower(checkMatch.mark) = "x",
                                    text |-> Trim(checkMatch.text)]),
                          fileName)
             ELSE IF tableMatch.ok /\ currentSection # NoSection
                     /\ IsTableTask(Trim(tableMatch.text))
             THEN PRDLoop(lines, k + 1, sections,
                          WithTask([done |-> ToLower(tableMatch.mark) = "x",
                                    text |-> Trim(tableMatch.text)]),
                          fileName)
             ELSE PRDLoop(lines, k + 1, sections, currentSection, fileName)

parsePRD(content, fileName) == PRDLoop(Split(content), 1, <<>>, NoSection, fileName)

(***************************************************************************)
(* The parsers applied to markdown files.                                  *)
(***************************************************************************)
\* the lines a file is made of
LinePool ==
    { <<"-", " ", "[", " ", "]", " ", "a">>,                      \* - [ ] a
      <<"*", " ", "[", "x", "]", " ", "b">>,                      \* * [x] b
      <<" ", "-", "[", "X", "]", "c">>,                           \*  -[X]c
      <<"-", " ", "[", " ", "]">>,                                \* - [ ]
      <<"-", " ", "[", "x", "]", " ">>,                           \* - [x] and a space
      <<"+", " ", "[", " ", "]", " ", "a">>,                      \* + [ ] a
      <<"-", " ", "[", "]", " ", "a">>,                           \* - [] a
      <<"#", " ", "t">>,                                          \* # t
      <<"#", "#", " ", "h">>,                                     \* ## h
      <<"#", "#", "#", " ", "H">>,                                \* ### H
      <<"#", "#", "#", "#", " ", "d">>,                           \* #### d
      <<"|", "1", "|", "c", "|", "m", "|", "[", "x", "]", "|">>,  \* |1|c|m|[x]|
      <<"p">>,                                                    \* p
      <<>> }                                                      \* an empty line

\* the names a file goes by
FileNames == { <<"a", "-", "b", ".", "m", "d">>, <<"T", "_", ".", "M", "D">> }

Files ==
    {Join(lines) : lines \in UNION {[1..n -> LinePool] : n \in 0..MaxLines}}

InitParse ==
    /\ input \in [content : Files \cup {NoFile}, fileName : FileNames]
    /\ output = [op |-> "none"]
    /\ run = NoRun
    /\ store = MkDoc(<<>>)
    /\ prev = store
    /\ last = [op |-> "none", id |-> MissingId, exit |-> 0]
    /\ now = 1

Returned(op, value) ==
    /\ output.op = "none"
    /\ output' = [op |-> op, value |-> value]
    /\ UNCHANGED <<input, run, cliVars>>

ParsePRDFile == Returned("parsePRDFile", parsePRDFile(input.content))

ParseChecklists ==
    /\ input.content # NoFile
    /\ Returned("parseChecklists", parseChecklists(input.content, input.fileName))

ParsePRD ==
    /\ input.content # NoFile
    /\ Returned("parsePRD", parsePRD(input.content, input.fileName))

NextParse == ParsePRDFile \/ ParseChecklists \/ ParsePRD

SpecParse == InitParse /\ [][NextParse]_vars

\* spaces, - or *, spaces, then [ ], [x] or [X] with its opening bracket at `o`
IsMarkerAt(line, o) ==
    /\ o + 2 <= Len(line)
    /\ line[o] = "[" /\ line[o + 1] \in {" ", "x", "X"} /\ line[o + 2] = "]"
    /\ \E b \in 1..(o - 1) :
           /\ line[b] \in {"-", "*"}
           /\ \A k \in 1..(o - 1) : k # b => line[k] = " "

\* a bullet checklist line: a marker, then a text that is not empty
IsChecklistLineAt(line, o) ==
    /\ IsMarkerAt(line, o)
    /\ \E k \in (o + 3)..Len(line) : line[k] # " "

\* a marker followed by spaces only: a text, but an empty one once trimmed
BlankText(line) ==
    \E o \in DOMAIN line :
        /\ IsMarkerAt(line, o)
        /\ o + 2 < Len(line)
        /\ \A k \in (o + 3)..Len(line) : line[k] = " "

WellFormed(line) == \E o \in DOMAIN line : IsChecklistLineAt(line, o)

\* the record a well-formed line stands for
RecordOf(line) ==
    LET o == CHOOSE x \in DOMAIN line : IsChecklistLineAt(line, x)
    IN  [done |-> line[o + 1] \in {"x", "X"}, text |-> Trim(SubSeq(line, o + 3, Len(line)))]

RECURSIVE RecordsOf(_)
\* the records of the well-formed lines, in line order
RecordsOf(lines) ==
    IF lines = <<>> THEN <<>>
    ELSE (IF WellFormed(Head(lines)) THEN <<RecordOf(Head(lines))>> ELSE <<>>)
         \o RecordsOf(Tail(lines))

RECURSIVE TasksOfSections(_)
TasksOfSections(sections) ==
    IF sections = <<>> THEN <<>>
    ELSE Head(sections).tasks \o TasksOfSections(Tail(sections))

\* the task records a parser returned, as [done, text]
TaskRecords ==
    CASE output.op = "parsePRDFile" -> output.value.checklistItems
      [] output.op = "parseChecklists" ->
             [k \in DOMAIN output.value |->
                 [done |-> output.value[k].done, text |-> output.value[k].name]]
      [] output.op = "parsePRD" -> TasksOfSections(output.value)
      [] OTHER -> <<>>

\* C7: every parser variant yields one task record per well-formed bullet checklist
\* line, in line order, done exactly for the lines marked x or X, wherever the lines
\* sit relative to headings (stated for the files where every marker is followed by
\* a text or by nothing, so that "non-empty text" is not in question).
C7_ParsersYieldEveryChecklistLine ==
    (output.op \in {"parsePRDFile", "parseChecklists", "parsePRD"}
        /\ input.content # NoFile
        /\ \A k \in DOMAIN Split(input.content) : ~BlankText(Split(input.content)[k]))
    => TaskRecords = RecordsOf(Split(input.content))

\* a heading line of level 1, 2 or 3: the hashes, white space, a text
IsHeadingLine(line) ==
    /\ Hashes(line) \in 1..3
    /\ Hashes(line) < Len(line) /\ IsSpace(line[Hashes(line) + 1])
    /\ \E k \in (Hashes(line) + 2)..Len(line) : ~IsSpace(line[k])

HeadingText(line) == Trim(SubSeq(line, Hashes(line) + 1, Len(line)))

RECURSIVE Attributed(_, _)
\* the well-formed lines in line order, each with the text of the nearest heading
\* line before it, or with `heading` when there is none
Attributed(lines, heading) ==
    IF lines = <<>> THEN <<>>
    ELSE LET line == Head(lines)
         IN  IF IsHeadingLine(line) THEN Attributed(Tail(lines), HeadingText(line))
             ELSE (IF WellFormed(line)
                   THEN <<[text |-> RecordOf(line).text, section |-> heading]>>
                   ELSE <<>>)
                  \o Attributed(Tail(lines), heading)

RECURSIVE SectionTasks(_)
SectionTasks(sections) ==
    IF sections = <<>> THEN <<>>
    ELSE [k \in DOMAIN Head(sections).tasks |->
             [text |-> Head(sections).tasks[k].text, section |-> Head(sections).heading]]
         \o SectionTasks(Tail(sections))

\* the task records a parser returned, as [text, section]
Attributions ==
    CASE output.op = "parseChecklists" ->
             [k \in DOMAIN output.value |->
                 [text |-> output.value[k].name, section |-> output.value[k].section]]
      [] output.op = "parsePRD" -> SectionTasks(output.value)
      [] OTHER -> <<>>

\* the file holds bullet checklist lines, headings and plain lines only
PlainFile ==
    /\ input.content # NoFile
    /\ \A k \in DOMAIN Split(input.content) :
           LET line == Split(input.content)[k]
           IN  ~BlankText(line) /\ ~TableMatch(line).ok

\* C17: in every parser that attributes tasks to headings, each task record carries
\* the text of the nearest heading of level 1, 2 or 3 before its line, a checklist
\* line before every heading carries the default label made of the file name, and
\* no checklist line is dropped for lack of a heading.
C17_NearestHeadingOrDefault ==
    (output.op \in {"parseChecklists", "parsePRD"} /\ PlainFile)
        => Attributions = Attributed(Split(input.content), DefaultHeading(input.fileName))

(***************************************************************************)
(* migrate-prd-to-tasks.js: slugify and the merge of sections in           *)
(* migrateRepo.                                                            *)
(***************************************************************************)
SlugMax == 50

LowerAlnum ==
    {"a", "b", "c", "d", "e", "f", "g", "h", "i", "j", "k", "l", "m",
     "n", "o", "p", "q", "r", "s", "t", "u", "v", "w", "x", "y", "z",
     "0", "1", "2", "3", "4", "5", "6", "7", "8", "9"}

RECURSIVE Keep(_, _)
\* the characters of str that are in the set, in order
Keep(str, chars) ==
    IF str = <<>> THEN <<>>
    ELSE (IF Head(str) \in chars THEN <<Head(str)>> ELSE <<>>) \o Keep(Tail(str), chars)

RECURSIVE SquashRuns(_, _, _)
\* replace(/X+/g, with): each maximal run of characters of the set becomes `with`
SquashRuns(str, chars, with) ==
    IF str = <<>> THEN <<>>
    ELSE IF Head(str) \in chars
         THEN IF Len(str) > 1 /\ str[2] \in chars
              THEN SquashRuns(Tail(str), chars, with)
              ELSE <<with>> \o SquashRuns(Tail(str), chars, with)
         ELSE <<Head(str)>> \o SquashRuns(Tail(str), chars, with)

\* replace(/^-|-$/g, '')
StripDashes(str) ==
    LET a == IF str # <<>> /\ Head(str) = "-" THEN Tail(str) ELSE str
    IN  IF a # <<>> /\ a[Len(a)] = "-" THEN SubSeq(a, 1, Len(a) - 1) ELSE a

slugify(text) ==
    LET kept == Keep(LowerCase(text), LowerAlnum \cup {" ", "\n", "-"})
        dashed == SquashRuns(kept, {" ", "\n"}, "-")
        single == SquashRuns(dashed, {"-"}, "-")
        bare == StripDashes(single)
    IN  SubSeq(bare, 1, Min(Len(bare), SlugMax))

RECURSIVE AllSections(_)
\* migrateRepo, step 2: the sections of every file that could be read
AllSections(files) ==
    IF files = <<>> THEN <<>>
    ELSE (IF Head(files).content = NoFile THEN <<>>
          ELSE parsePRD(Head(files).content, Head(files).fileName))
         \o AllSections(Tail(files))

\* the tasks of `section` that the merge pushes onto `existing`: existingTexts is
\* taken once, before the loop
NewTasks(existing, section) ==
    LET existingTexts == {existing.tasks[k].text : k \in DOMAIN existing.tasks}
    IN  SelectSeq(section.tasks, LAMBDA task : task.text \notin existingTexts)

RECURSIVE MergeLoop(_, _)
\* migrateRepo, step 3: merged is the Map in insertion order, as [key, section]
MergeLoop(sections, merged) ==
    IF sections = <<>> THEN merged
    ELSE LET section == Head(sections)
             key == slugify(section.heading)
             has == {k \in DOMAIN merged : merged[k].key = key}
         IN  IF has # {}
             THEN LET at == CHOOSE k \in has : TRUE
                      existing == merged[at].section
                      grown == [existing EXCEPT
                                   !.tasks = @ \o NewTasks(existing, section),
                                   !.source = @ \o <<",", " ">> \o section.source]
                  IN  MergeLoop(Tail(sections), [merged EXCEPT ![at].section = grown])
             ELSE MergeLoop(Tail(sections),
                            Append(merged, [key |-> key, section |-> section]))

\* migrateRepo up to finalSections
migrateRepo(files) ==
    LET merged == MergeLoop(AllSections(files), <<>>)
    IN  [k \in DOMAIN merged |-> merged[k].section]

MergeLinePool ==
    { <<"#", "#", " ", "h">>,                      \* ## h
      <<"#", "#", " ", "H", "!">>,                 \* ## H!
      <<"#", "#", "#", " ", "k">>,                 \* ### k
      <<"-", " ", "[", " ", "]", " ", "a">>,       \* - [ ] a
      <<"-", " ", "[", "x", "]", " ", "b">> }      \* - [x] b

MergeFiles ==
    {Join(lines) : lines \in UNION {[1..n -> MergeLinePool] : n \in 0..MaxLines}}
        \cup {NoFile}

FirstName == <<"a", "-", "b", ".", "m", "d">>
SecondName == <<"T", "_", ".", "M", "D">>

\* the PRD files of a repository
FileTrees(contents) ==
    {<<>>}
        \cup {<<[content |-> f, fileName |-> FirstName]>> : f \in contents}
        \cup {<<[content |-> f, fileName |-> FirstName],
                [content |-> g, fileName |-> SecondName]>> : f, g \in contents}

InitMerge ==
    /\ input \in [files : FileTrees(MergeFiles)]
    /\ output = [op |-> "none"]
    /\ run = NoRun
    /\ store = MkDoc(<<>>)
    /\ prev = store
    /\ last = [op |-> "none", id |-> MissingId, exit |-> 0]
    /\ now = 1

MigrateRepo == Returned("migrateRepo", migrateRepo(input.files))

NextMerge == MigrateRepo

SpecMerge == InitMerge /\ [][NextMerge]_vars

RECURSIVE Dedup(_, _)
\* the members of seq not in `seen`, each once, in first-seen order
Dedup(seq, seen) ==
    IF seq = <<>> THEN <<>>
    ELSE IF Head(seq) \in seen THEN Dedup(Tail(seq), seen)
         ELSE <<Head(seq)>> \o Dedup(Tail(seq), seen \cup {Head(seq)})

RECURSIVE TextsUnder(_, _)
\* the task texts of the sections of the key, in section order
TextsUnder(sections, key) ==
    IF sections = <<>> THEN <<>>
    ELSE (IF slugify(Head(sections).heading) = key
          THEN [k \in DOMAIN Head(sections).tasks |-> Head(sections).tasks[k].text]
          ELSE <<>>)
         \o TextsUnder(Tail(sections), key)

\* the keys that two of the parsed sections share
SharedKeys ==
    LET all == AllSections(input.files)
    IN  {slugify(all[i].heading) : i \in
            {i \in DOMAIN all : \E j \in DOMAIN all :
                 j # i /\ slugify(all[j].heading) = slugify(all[i].heading)}}

\* C8: when two parsed sections slugify to the same key, the merge yields exactly one
\* section for the key and its task list holds each distinct task text of those
\* sections exactly once, in first-seen order.
C8_MergeKeepsEachTextOnce ==
    output.op = "migrateRepo" =>
        \A key \in SharedKeys :
            LET of == {k \in DOMAIN output.value : slugify(output.value[k].heading) = key}
            IN  /\ Cardinality(of) = 1
                /\ \A k \in of :
                       [t \in DOMAIN output.value[k].tasks |-> output.value[k].tasks[t].text]
                           = Dedup(TextsUnder(AllSections(input.files), key), {})

(***************************************************************************)
(* api/projects.js: buildProjectData, in the dynamic-discovery variant and *)
(* in the variant with a configured project list.                          *)
(***************************************************************************)
MaxRepoLines == 2   \* lines of a checklist file of a repository
MaxCommits == 6     \* commits of a listing
MaxRepos == 3       \* repositories of a discovery

IdleAfter == 30
PausedAfter == 90
RecentMax == 5
TitleMax == 80
MilestoneIdMax == 50
StaticIdMax == 40
FarAway == 999
NoPush == -1        \* pushedAt is null: daysSinceUpdate is null

Alphabet ==
    LowerAlnum \cup {"A", "D", "H", "M", "R", "T", "X", " ", "\n", "-", "*", "+",
                     "[", "]", "#", "|", ".", "_", "!", ",", "(", ")"}

Digit(n) == <<"0", "1", "2", "3", "4", "5", "6", "7", "8", "9">>[n + 1]

RECURSIVE Decimal(_)
\* a number inside a template literal
Decimal(n) == IF n < 10 THEN <<Digit(n)>> ELSE Decimal(n \div 10) \o <<Digit(n % 10)>>

\* .toLowerCase().replace(/[^a-z0-9]+/g, '-')
Dashed(str) == SquashRuns(LowerCase(str), Alphabet \ LowerAlnum, "-")

Slice(str, n) == SubSeq(str, 1, Min(Len(str), n))

\* message.split('\n')[0]
FirstLine(message) == Split(message)[1]

ActivityName == <<"R", "e", "c", "e", "n", "t", " ", "A", "c", "t", "i", "v", "i", "t", "y">>

\* prdFiles.map(...): the tasks of each file, none when the content is missing or empty
PrdResults(files) ==
    [k \in DOMAIN files |->
        [file |-> files[k].fileName,
         tasks |-> IF files[k].content = NoFile \/ files[k].content = <<>> THEN <<>>
                   ELSE parseChecklists(files[k].content, files[k].fileName)]]

RECURSIVE GroupSections(_, _, _)
\* the sections object of one file: [name, tasks] in the order of Object.entries
GroupSections(tasks, file, sections) ==
    IF tasks = <<>> THEN sections
    ELSE LET task == Head(tasks)
             section == IF task.section = <<>> THEN file ELSE task.section
             has == {k \in DOMAIN sections : sections[k].name = section}
         IN  IF has = {}
             THEN GroupSections(Tail(tasks), file,
                                Append(sections, [name |-> section, tasks |-> <<task>>]))
             ELSE LET at == CHOOSE k \in has : TRUE
                  IN  GroupSections(Tail(tasks), file,
                                    [sections EXCEPT ![at].tasks = Append(@, task)])

\* the done mutant: one done task is enough
AllDone_SomeDone(tasks) == \E k \in DOMAIN tasks : tasks[k].done

\* doneTasks === sectionTasks.length
AllDone(tasks) == \A k \in DOMAIN tasks : tasks[k].done

\* the id of task i of the milestone pushed when n milestones exist
TaskId(repoName, n, i, static) ==
    IF static THEN repoName \o <<"-", "t">> \o Decimal(n) \o <<"-">> \o Decimal(i)
    ELSE Dashed(repoName \o <<"-", "m">> \o Decimal(n) \o <<"-", "t">> \o Decimal(i))

\* the milestone mutant: every milestone that is not done is current
SectionMilestone_EveryUndoneCurrent(repoName, file, section, milestones, static) ==
    LET allDone == AllDone(section.tasks)
    IN  [id |-> Slice(Dashed(repoName \o <<"-">> \o section.name),
                      IF static THEN StaticIdMax ELSE MilestoneIdMax),
         name |-> section.name,
         done |-> allDone,
         current |-> ~allDone,
         source |-> file,
         tasks |-> [i \in DOMAIN section.tasks |->
                       [id |-> TaskId(repoName, Len(milestones), i - 1, static),
                        name |-> section.tasks[i].name,
                        done |-> section.tasks[i].done,
                        current |-> ~section.tasks[i].done
                                    /\ AllDone(SubSeq(section.tasks, 1, i - 1))]]]

\* the task mutant: every task that is not done is current
SectionMilestone_EveryUndoneTaskCurrent(repoName, file, section, milestones, static) ==
    LET allDone == AllDone(section.tasks)
    IN  [id |-> Slice(Dashed(repoName \o <<"-">> \o section.name),
                      IF static THEN StaticIdMax ELSE MilestoneIdMax),
         name |-> section.name,
         done |-> allDone,
         current |-> ~allDone /\ \A k \in DOMAIN milestones : milestones[k].done,
         source |-> file,
         tasks |-> [i \in DOMAIN section.tasks |->
                       [id |-> TaskId(repoName, Len(milestones), i - 1, static),
                        name |-> section.tasks[i].name,
                        done |-> section.tasks[i].done,
                        current |-> ~section.tasks[i].done]]]

\* milestones.push({...}) for one section
SectionMilestone(repoName, file, section, milestones, static) ==
    LET allDone == AllDone(section.tasks)
    IN  [id |-> Slice(Dashed(repoName \o <<"-">> \o section.name),
                      IF static THEN StaticIdMax ELSE MilestoneIdMax),
         name |-> section.name,
         done |-> allDone,
         current |-> ~allDone /\ \A k \in DOMAIN milestones : milestones[k].done,
         source |-> file,
         tasks |-> [i \in DOMAIN section.tasks |->
                       [id |-> TaskId(repoName, Len(milestones), i - 1, static),
                        name |-> section.tasks[i].name,
                        done |-> section.tasks[i].done,
                        current |-> ~section.tasks[i].done
                                    /\ AllDone(SubSeq(section.tasks, 1, i - 1))]]]

RECURSIVE PushSections(_, _, _, _, _)
PushSections(repoName, file, sections, milestones, static) ==
    IF sections = <<>> THEN milestones
    ELSE PushSections(repoName, file, Tail(sections),
             Append(milestones,
                    SectionMilestone(repoName, file, Head(sections), milestones, static)),
             static)

RECURSIVE ChecklistMilestones(_, _, _, _)
\* the loop over prdResults
ChecklistMilestones(repoName, prdResults, milestones, static) ==
    IF prdResults = <<>> THEN milestones
    ELSE LET prd == Head(prdResults)
         IN  ChecklistMilestones(repoName, Tail(prdResults),
                 IF prd.tasks = <<>> THEN milestones
                 ELSE PushSections(repoName, prd.file,
                                   GroupSections(prd.tasks, prd.file, <<>>),
                                   milestones, static),
                 static)

\* the fallback mutant: a milestone is pushed whatever the commit listing is
RecentActivity_WhateverCommits(repoName, commits, milestones) ==
    IF milestones = <<>>
    THEN <<[id |-> LowerCase(repoName \o <<"-", "a", "c", "t", "i", "v", "i", "t", "y">>),
            name |-> ActivityName,
            done |-> FALSE,
            current |-> TRUE,
            tasks |-> [i \in DOMAIN Slice(commits.list, RecentMax) |->
                          [id |-> LowerCase(repoName \o <<"-", "c">> \o Decimal(i - 1)),
                           name |-> Slice(FirstLine(commits.list[i]), TitleMax),
                           done |-> TRUE]]]>>
    ELSE milestones

\* dynamic variant: no PRD checklists found, show recent commits as activity
RecentActivity(repoName, commits, milestones) ==
    IF milestones = <<>> /\ commits.ok /\ Len(commits.list) > 0
    THEN <<[id |-> LowerCase(repoName \o <<"-", "a", "c", "t", "i", "v", "i", "t", "y">>),
            name |-> ActivityName,
            done |-> FALSE,
            current |-> TRUE,
            tasks |-> [i \in DOMAIN Slice(commits.list, RecentMax) |->
                          [id |-> LowerCase(repoName \o <<"-", "c">> \o Decimal(i - 1)),
                           name |-> Slice(FirstLine(commits.list[i]), TitleMax),
                           done |-> TRUE]]]>>
    ELSE milestones

\* configured variant: if no milestones from PRDs, create one from repo activity
RecentActivityStatic(repoName, commits, milestones) ==
    IF milestones = <<>> /\ commits.ok /\ Len(commits.list) > 0
    THEN <<[id |-> repoName \o <<"-", "a", "c", "t", "i", "v", "i", "t", "y">>,
            name |-> ActivityName,
            done |-> FALSE,
            current |-> TRUE,
            tasks |-> [i \in DOMAIN Slice(commits.list, RecentMax) |->
                          [id |-> repoName \o <<"-", "c", "o", "m", "m", "i", "t", "-">>
                                      \o Decimal(i - 1),
                           name |-> Slice(FirstLine(commits.list[i]), TitleMax),
                           done |-> TRUE,
                           aiTime |-> "null"]]]>>
    ELSE milestones

\* mark first undone milestone as current
MarkFirstUndone(milestones) ==
    IF \E k \in DOMAIN milestones : milestones[k].current THEN milestones
    ELSE LET undone == {k \in DOMAIN milestones : ~milestones[k].done}
         IN  IF undone = {} THEN milestones
             ELSE [milestones EXCEPT ![Min1(undone)].current = TRUE]

\* the status mutant: the thresholds themselves count as passed
StatusOf_AtThreshold(daysSinceUpdate) ==
    IF daysSinceUpdate # NoPush /\ daysSinceUpdate >= PausedAfter THEN "paused"
    ELSE IF daysSinceUpdate # NoPush /\ daysSinceUpdate >= IdleAfter THEN "idle"
    ELSE "active"

\* dynamic variant: status from activity
StatusOf(daysSinceUpdate) ==
    IF daysSinceUpdate # NoPush /\ daysSinceUpdate > PausedAfter THEN "paused"
    ELSE IF daysSinceUpdate # NoPush /\ daysSinceUpdate > IdleAfter THEN "idle"
    ELSE "active"

\* configured variant: status from config or activity
StatusStatic(configured, daysSinceUpdate) ==
    IF daysSinceUpdate # NoPush /\ daysSinceUpdate > IdleAfter /\ configured = "active"
    THEN "paused" ELSE configured

RECURSIVE TasksOfMilestones(_)
\* count total checklist progress: the tasks the loops visit
TasksOfMilestones(milestones) ==
    IF milestones = <<>> THEN <<>>
    ELSE Head(milestones).tasks \o TasksOfMilestones(Tail(milestones))

LastCommit(commits) ==
    IF commits.ok /\ commits.list # <<>> THEN <<FirstLine(commits.list[1])>> ELSE <<>>

\* dynamic variant; the result is the list of the projects built (one)
buildProjectData(repo, index) ==
    LET milestones ==
            MarkFirstUndone(
                RecentActivity(repo.name, repo.commits,
                    ChecklistMilestones(repo.name, PrdResults(repo.files), <<>>, FALSE)))
    IN  <<[id |-> LowerCase(repo.name),
           status |-> StatusOf(repo.days),
           priority |-> index,
           prdFiles |-> Len(repo.files),
           lastCommit |-> LastCommit(repo.commits),
           daysSinceUpdate |-> repo.days,
           totalItems |-> Len(TasksOfMilestones(milestones)),
           doneItems |-> Len(SelectSeq(TasksOfMilestones(milestones), LAMBDA t : t.done)),
           milestones |-> milestones]>>

\* configured variant; the result is the list of the projects built (none or one)
buildProjectDataStatic(repo, config) ==
    IF ~repo.found THEN <<>>
    ELSE LET milestones ==
                 MarkFirstUndone(
                     RecentActivityStatic(repo.name, repo.commits,
                         ChecklistMilestones(repo.name, PrdResults(repo.files), <<>>, TRUE)))
         IN  <<[id |-> LowerCase(repo.name),
                status |-> StatusStatic(config.status, repo.days),
                priority |-> config.priority,
                lastCommit |-> LastCommit(repo.commits),
                daysSinceUpdate |-> repo.days,
                milestones |-> milestones]>>

\* what the environment can answer for one repository
DaySamples == {NoPush, 0, IdleAfter, IdleAfter + 1, PausedAfter, PausedAfter + 1}

CommitMessage == <<"c", "\n", "d">>

CommitListings ==
    {[ok |-> FALSE, list |-> <<>>]}
        \cup {[ok |-> TRUE, list |-> [i \in 1..n |-> CommitMessage]] : n \in {0, 1, MaxCommits}}

RepoLinePool ==
    { <<"#", "#", " ", "h">>,                      \* ## h
      <<"-", " ", "[", " ", "]", " ", "a">>,       \* - [ ] a
      <<"*", " ", "[", "X", "]", " ", "b">> }      \* * [X] b

RepoFiles ==
    {Join(lines) : lines \in UNION {[1..n -> RepoLinePool] : n \in 0..MaxRepoLines}}
        \cup {NoFile}

RepoName(k) == <<"T", "-">> \o Decimal(k)

BuildRepos ==
    [name : {RepoName(1)}, found : {TRUE}, days : DaySamples,
     files : FileTrees(RepoFiles), commits : CommitListings]

StaticStatuses == {"active", "live", "paused"}

InitBuild ==
    /\ input \in [variant : {"dynamic"}, repo : BuildRepos, status : {"active"}]
                    \cup [variant : {"static"}, repo : BuildRepos, status : StaticStatuses]
                    \cup [variant : {"static"}, status : {"active"},
                          repo : [name : {RepoName(1)}, found : {FALSE}, days : {NoPush},
                                  files : {<<>>}, commits : {[ok |-> FALSE, list |-> <<>>]}]]
    /\ output = [op |-> "none"]
    /\ run = NoRun
    /\ store = MkDoc(<<>>)
    /\ prev = store
    /\ last = [op |-> "none", id |-> MissingId, exit |-> 0]
    /\ now = 1

BuildProjectData ==
    /\ input.variant = "dynamic"
    /\ Returned("buildProjectData", buildProjectData(input.repo, 0))

BuildProjectDataStatic ==
    /\ input.variant = "static"
    /\ Returned("buildProjectDataStatic",
                buildProjectDataStatic(input.repo, [status |-> input.status, priority |-> 1]))

NextBuild == BuildProjectData \/ BuildProjectDataStatic

SpecBuild == InitBuild /\ [][NextBuild]_vars

Built == output.op \in {"buildProjectData", "buildProjectDataStatic"}

\* no checklist section is found: no file, or files that yield no task
NoChecklist ==
    \A k \in DOMAIN input.repo.files :
        LET content == input.repo.files[k].content
        IN  \/ content = NoFile
            \/ content = <<>>
            \/ \A n \in DOMAIN Split(content) : ~CheckMatch(Split(content)[n], 1).ok

IsRecentActivity(milestone) ==
    /\ milestone.name = ActivityName
    /\ milestone.current
    /\ \A t \in DOMAIN milestone.tasks : milestone.tasks[t].done

\* C9 as stated: every project has a milestone; without a checklist section it is a
\* single Recent Activity milestone, current, all tasks done, whatever the commit
\* listing returned.
C9_AlwaysAMilestone ==
    Built =>
        \A p \in DOMAIN output.value :
            /\ Len(output.value[p].milestones) >= 1
            /\ NoChecklist =>
                   /\ Len(output.value[p].milestones) = 1
                   /\ IsRecentActivity(output.value[p].milestones[1])

\* C9: without a checklist section, a project has the single Recent Activity
\* milestone (not done, current, one done task for each of the first five commits)
\* when the commit listing is a non-empty list, and no milestone at all when the
\* listing is null or empty.
C9_RecentActivityNeedsCommits ==
    (Built /\ NoChecklist) =>
        \A p \in DOMAIN output.value :
            LET milestones == output.value[p].milestones
                commits == input.repo.commits
            IN  IF commits.ok /\ commits.list # <<>>
                THEN /\ Len(milestones) = 1
                     /\ IsRecentActivity(milestones[1])
                     /\ ~milestones[1].done
                     /\ Len(milestones[1].tasks) = Min(Len(commits.list), RecentMax)
                ELSE milestones = <<>>

C9_Witness ==
    /\ Built /\ NoChecklist
    /\ input.repo.files # <<>>
    /\ output.value # <<>>
    /\ Len(input.repo.commits.list) > RecentMax
    /\ Len(output.value[1].milestones) = 1

\* C23: the dynamic variant gives a project pushed d whole days ago the status paused
\* when d > 90, idle when 30 < d <= 90 and active when d <= 30 or no push date is
\* known: 30 days is active, 90 days is idle.
C23_StatusByDays ==
    output.op = "buildProjectData" =>
        \A p \in DOMAIN output.value :
            LET d == input.repo.days
            IN  /\ output.value[p].daysSinceUpdate = d
                /\ output.value[p].status =
                       (IF d = NoPush THEN "active"
                        ELSE IF d > 90 THEN "paused"
                        ELSE IF d > 30 THEN "idle"
                        ELSE "active")

C23_Witness ==
    /\ output.op = "buildProjectData"
    /\ input.repo.days = 90
    /\ output.value[1].status = "idle"

\* the milestones of the projects built
BuiltMilestones ==
    IF Built THEN UNION {{output.value[p].milestones} : p \in DOMAIN output.value} ELSE {}

Currents(items) == {k \in DOMAIN items : items[k].current}

Undone(items) == {k \in DOMAIN items : ~items[k].done}

\* a milestone made of the checklist tasks of a section
FromChecklist(milestone) == "source" \in DOMAIN milestone

\* C18: in every project built, by either variant, at most one milestone is current;
\* when some milestone is not done, the current one is the first that is not done;
\* when all are done, none is current.
C18_CurrentIsFirstUndone ==
    \A milestones \in BuiltMilestones :
        /\ Cardinality(Currents(milestones)) <= 1
        /\ Undone(milestones) # {} => Currents(milestones) = {Min1(Undone(milestones))}
        /\ Undone(milestones) = {} => Currents(milestones) = {}

C18_Witness ==
    \E milestones \in BuiltMilestones :
        /\ Len(milestones) = 2
        /\ milestones[1].done /\ ~milestones[1].current
        /\ ~milestones[2].done /\ milestones[2].current

\* C19: in every milestone built from checklist tasks, a task is current exactly when
\* it is not done and every task before it is done: a milestone that is not done has
\* exactly one current task, its first that is not done, and a done milestone has
\* none, whether or not the milestone is current.
C19_CurrentTaskIsFirstUndone ==
    \A milestones \in BuiltMilestones :
        \A m \in DOMAIN milestones :
            FromChecklist(milestones[m]) =>
                LET tasks == milestones[m].tasks
                IN  /\ \A i \in DOMAIN tasks :
                           tasks[i].current <=>
                               (~tasks[i].done /\ \A j \in 1..(i - 1) : tasks[j].done)
                    /\ ~milestones[m].done => Currents(tasks) = {Min1(Undone(tasks))}
                    /\ milestones[m].done => Currents(tasks) = {}

C19_Witness ==
    \E milestones \in BuiltMilestones :
        /\ Len(milestones) = 2
        /\ ~milestones[2].current
        /\ Len(milestones[2].tasks) = 2
        /\ milestones[2].tasks[1].done /\ ~milestones[2].tasks[1].current
        /\ ~milestones[2].tasks[2].done /\ milestones[2].tasks[2].current

EveryTaskDone(milestone) == \A t \in DOMAIN milestone.tasks : milestone.tasks[t].done

StatusOrder(status) ==
    LET statusOrder == [active |-> 0, idle |-> 1, paused |-> 2]
    IN  IF statusOrder[status] = 0 THEN 2 ELSE statusOrder[status]

\* n || fallback, for a number or null
OrElse(n, fallback) == IF n = NoPush \/ n = 0 THEN fallback ELSE n

\* the comparator of projects.sort
Compare(a, b) ==
    LET statusDiff == StatusOrder(a.status) - StatusOrder(b.status)
        prdDiff == OrElse(b.prdFiles, 0) - OrElse(a.prdFiles, 0)
    IN  IF statusDiff # 0 THEN statusDiff
        ELSE IF prdDiff # 0 THEN prdDiff
        ELSE OrElse(a.daysSinceUpdate, FarAway) - OrElse(b.daysSinceUpdate, FarAway)

RECURSIVE InsertSorted(_, _)
\* p goes after every member that does not compare greater than it
InsertSorted(sorted, p) ==
    IF sorted = <<>> THEN <<p>>
    ELSE IF Compare(Head(sorted), p) <= 0
         THEN <<Head(sorted)>> \o InsertSorted(Tail(sorted), p)
         ELSE <<p>> \o sorted

RECURSIVE Sort(_)
\* Array.prototype.sort, which is stable
Sort(projects) ==
    IF projects = <<>> THEN <<>>
    ELSE InsertSorted(Sort(SubSeq(projects, 1, Len(projects) - 1)), projects[Len(projects)])

RECURSIVE BuildAll(_, _)
\* the batches: repository k is built with index k, failed builds are left out
BuildAll(repos, i) ==
    IF i > Len(repos) THEN <<>>
    ELSE buildProjectData(repos[i], i - 1) \o BuildAll(repos, i + 1)

\* the document of the 200 response
handler(repos, ts) ==
    LET projects == Sort(BuildAll(repos, 1))
    IN  [meta |-> [lastUpdated |-> ts, lastScanType |-> "live-api",
                   projectCount |-> Len(projects)],
         projects |-> projects]

\* a discovered repository: with a checklist file or without, no commit listing
DiscoveredRepos(k) ==
    [name : {RepoName(k)}, found : {TRUE}, days : DaySamples,
     files : {<<>>, <<[content |-> <<"-", " ", "[", " ", "]", " ", "a">>,
                      fileName |-> FirstName]>>},
     commits : {[ok |-> FALSE, list |-> <<>>]}]

Discoveries ==
    UNION {{repos \in [1..n -> UNION {DiscoveredRepos(k) : k \in 1..n}] :
                \A k \in 1..n : repos[k].name = RepoName(k)} : n \in 0..MaxRepos}

InitHandler ==
    /\ input \in [repos : Discoveries]
    /\ output = [op |-> "none"]
    /\ run = NoRun
    /\ store = MkDoc(<<>>)
    /\ prev = store
    /\ last = [op |-> "none", id |-> MissingId, exit |-> 0]
    /\ now = 1

Handler == Returned("handler", handler(input.repos, now))

NextHandler == Handler

SpecHandler == InitHandler /\ [][NextHandler]_vars

\* the rank of a status in the stated order
StatusRank(status) ==
    CASE status = "active" -> 0
      [] status = "idle" -> 1
      [] status = "paused" -> 2

\* C10: in the handler's project list, for any p before q the status rank of p
\* (active < idle < paused) is at most that of q: no idle or paused project
\* precedes an active one.
C10_OrderedByStatusRank ==
    output.op = "handler" =>
        \A i, j \in DOMAIN output.value.projects :
            i < j => StatusRank(output.value.projects[i].status)
                         <= StatusRank(output.value.projects[j].status)

\* C22: in the handler's project list, of two projects with the same status and the
\* same count of checklist files, both with a known push date, the one pushed fewer
\* days ago comes first; a project pushed today comes before every project pushed a
\* day ago or more.
C22_FewerDaysFirst ==
    output.op = "handler" =>
        \A i, j \in DOMAIN output.value.projects :
            LET p == output.value.projects[i]
                q == output.value.projects[j]
            IN  (/\ i < j
                 /\ StatusRank(p.status) = StatusRank(q.status)
                 /\ p.prdFiles = q.prdFiles
                 /\ p.daysSinceUpdate # NoPush /\ q.daysSinceUpdate # NoPush)
                    => p.daysSinceUpdate <= q.daysSinceUpdate

(***************************************************************************)
(* api/projects.js, both variants: one invocation of the handler, its      *)
(* concurrent builds settling in any order, fetches that fail or throw.    *)
(***************************************************************************)
MaxServed == 2      \* repositories of an invocation

batchSize == 8
DayLength == 2      \* clock ticks in 1000 * 60 * 60 * 24 ms

\* the content of a file whose fetch throws (network error)
Thrown == <<"(thrown)">>

\* the days mutant: the difference of the clock readings is not divided
DaysSinceUpdate_Undivided(pushedAt, t) ==
    IF pushedAt = NoPush THEN NoPush ELSE t - pushedAt

\* Math.floor((Date.now() - lastPush.getTime()) / (1000 * 60 * 60 * 24)), or null
DaysSinceUpdate(pushedAt, t) ==
    IF pushedAt = NoPush THEN NoPush ELSE (t - pushedAt) \div DayLength

ServedFiles == {<<"-", " ", "[", " ", "]", " ", "a">>, NoFile, Thrown}

\* what the remote answers for repository k: `fails` names the calls that throw
ServedRepos(k) ==
    [name : {RepoName(k)}, found : {TRUE}, pushedAt : {1},
     files : FileTrees(ServedFiles), fails : {{}, {"commits"}},
     commits : {[ok |-> FALSE, list |-> <<>>]}]
        \cup [name : {RepoName(k)}, found : {TRUE}, pushedAt : {1},
              files : {<<>>}, fails : {{"tree"}},
              commits : {[ok |-> FALSE, list |-> <<>>]}]

Served ==
    UNION {{repos \in [1..n -> UNION {ServedRepos(k) : k \in 1..n}] :
                \A k \in 1..n : repos[k].name = RepoName(k)} : n \in 0..MaxServed}

\* the repository as buildProjectData sees it at clock t
AtTime(repo, t) ==
    [name |-> repo.name, found |-> repo.found,
     days |-> DaysSinceUpdate(repo.pushedAt, t),
     files |-> repo.files, commits |-> repo.commits]

\* the build of a repository rejects: a call outside a try block throws
Rejects(repo) ==
    \/ "commits" \in repo.fails
    \/ \E k \in DOMAIN repo.files : repo.files[k].content = Thrown

\* the settle mutant: a failed build is not caught
Settled_Uncaught(repo, index, t, static) ==
    IF Rejects(repo) THEN [state |-> "rejected", value |-> <<>>]
    ELSE [state |-> "fulfilled",
          value |-> IF static
                    THEN buildProjectDataStatic(AtTime(repo, t),
                             [status |-> "active", priority |-> index + 1])
                    ELSE buildProjectData(AtTime(repo, t), index)]

\* the promise of one build once settled: buildProjectData(repo, i + j).catch(() => null)
\* in the dynamic variant, buildProjectData(repo, config) in the configured one
Settled(repo, index, t, static) ==
    IF Rejects(repo)
    THEN IF static THEN [state |-> "rejected", value |-> <<>>]
         ELSE [state |-> "fulfilled", value |-> <<>>]
    ELSE [state |-> "fulfilled",
          value |-> IF static
                    THEN buildProjectDataStatic(AtTime(repo, t),
                             [status |-> "active", priority |-> index + 1])
                    ELSE buildProjectData(AtTime(repo, t), index)]

RECURSIVE InsertByPriority(_, _)
InsertByPriority(sorted, p) ==
    IF sorted = <<>> THEN <<p>>
    ELSE IF Head(sorted).priority - p.priority <= 0
         THEN <<Head(sorted)>> \o InsertByPriority(Tail(sorted), p)
         ELSE <<p>> \o sorted

RECURSIVE SortByPriority(_)
\* configured variant: projects.sort((a, b) => a.priority - b.priority)
SortByPriority(projects) ==
    IF projects = <<>> THEN <<>>
    ELSE InsertByPriority(SortByPriority(SubSeq(projects, 1, Len(projects) - 1)),
                          projects[Len(projects)])

RECURSIVE Flatten(_)
\* results.filter(Boolean)
Flatten(results) ==
    IF results = <<>> THEN <<>> ELSE Head(results).value \o Flatten(Tail(results))

Pending == [state |-> "pending", value |-> <<>>]
Waiting == [state |-> "waiting", value |-> <<>>]

InitServe ==
    /\ input \in [variant : {"dynamic"}, discovery : {"listed"}, repos : Served]
                    \cup [variant : {"dynamic"}, discovery : {"thrown"}, repos : {<<>>}]
                    \cup [variant : {"static"}, discovery : {"listed"},
                          repos : {repos \in Served :
                                      \A k \in DOMAIN repos : "tree" \notin repos[k].fails}]
    /\ run = [pc |-> "start", i |-> 0, promises |-> [k \in DOMAIN input.repos |-> Waiting],
              projects |-> <<>>, sent |-> <<>>]
    /\ output = [op |-> "none"]
    /\ store = MkDoc(<<>>)
    /\ prev = store
    /\ last = [op |-> "none", id |-> MissingId, exit |-> 0]
    /\ now = 1

Static == input.variant = "static"

Step(next) == run' = next /\ UNCHANGED <<input, output, cliVars>>

\* dynamic variant: const repos = await getAllRepos()
GetAllRepos ==
    /\ run.pc = "start" /\ ~Static
    /\ Step([run EXCEPT !.pc = IF input.discovery = "thrown" THEN "catch" ELSE "batch"])

\* configured variant: Promise.all(projectEntries.map(...)), every build started
StartAll ==
    /\ run.pc = "start" /\ Static
    /\ Step([run EXCEPT !.pc = "await", !.promises = [k \in DOMAIN @ |-> Pending]])

\* the batch mutant: every build that has not been started
Batch_AllAtOnce == {k \in DOMAIN input.repos : run.i < k}

\* the builds of the batch that `i` opens
Batch == {k \in DOMAIN input.repos : run.i < k /\ k <= run.i + batchSize}

\* dynamic variant: the head of the loop over the batches
StartBatch ==
    /\ run.pc = "batch"
    /\ Step(IF run.i < Len(input.repos)
            THEN [run EXCEPT !.pc = "await",
                             !.promises = [k \in DOMAIN @ |->
                                              IF k \in Batch THEN Pending ELSE @[k]]]
            ELSE [run EXCEPT !.pc = "sort"])

\* one build settles, whenever the remote has answered
Settle(k) ==
    /\ run.promises[k].state = "pending"
    /\ Step([run EXCEPT !.promises[k] = Settled(input.repos[k], k - 1, now, Static)])

\* dynamic variant: await Promise.all(batch) returns, the results are pushed
EndBatch ==
    /\ run.pc = "await" /\ ~Static
    /\ \A k \in Batch : run.promises[k].state = "fulfilled"
    /\ Step([run EXCEPT !.pc = "batch", !.i = @ + batchSize,
                        !.projects = @ \o Flatten(SelectSeq(
                            [k \in DOMAIN run.promises |->
                                IF k \in Batch THEN run.promises[k] ELSE Waiting],
                            LAMBDA r : r.state = "fulfilled"))])

\* configured variant: await Promise.all returns
AllBuilt ==
    /\ run.pc = "await" /\ Static
    /\ \A k \in DOMAIN run.promises : run.promises[k].state = "fulfilled"
    /\ Step([run EXCEPT !.pc = "sort", !.projects = Flatten(run.promises)])

\* Promise.all rejects with the first rejection: control goes to the catch block
Rejected ==
    /\ run.pc = "await"
    /\ \E k \in DOMAIN run.promises : run.promises[k].state = "rejected"
    /\ Step([run EXCEPT !.pc = "catch"])

\* the document of res.status(200).json(data)
Document ==
    LET projects == IF Static THEN SortByPriority(run.projects) ELSE Sort(run.projects)
    IN  [meta |-> [lastUpdated |-> now,
                   lastScanType |-> "live-api",
                   projectCount |-> Len(projects)],
         projects |-> projects]

Respond200 ==
    /\ run.pc = "sort"
    /\ Step([run EXCEPT !.pc = "done",
                        !.sent = Append(@, [status |-> 200, body |-> Document])])

Respond500 ==
    /\ run.pc = "catch"
    /\ Step([run EXCEPT !.pc = "done",
                        !.sent = Append(@, [status |-> 500,
                                            body |-> [error |-> "Failed to fetch project data",
                                                      message |-> "error.message"]])])

NextServe ==
    \/ GetAllRepos
    \/ StartAll
    \/ StartBatch
    \/ \E k \in DOMAIN input.repos : Settle(k)
    \/ EndBatch
    \/ AllBuilt
    \/ Rejected
    \/ Respond200
    \/ Respond500

SpecServe == InitServe /\ [][NextServe]_vars

\* a step of the handler's try block throws
Threw ==
    IF Static THEN \E k \in DOMAIN input.repos : Rejects(input.repos[k])
    ELSE input.discovery = "thrown"

\* the handler can go on: a continuation is ready or a build is still to settle
CanGoOn ==
    \/ run.pc \in {"start", "batch", "sort", "catch"}
    \/ /\ run.pc = "await"
       /\ \/ \E k \in DOMAIN run.promises : run.promises[k].state \in {"pending", "rejected"}
          \/ \A k \in DOMAIN run.promises :
                 run.promises[k].state = "waiting" => k \notin Batch

\* C11: an invocation of the handler sends exactly one response, 200 with the
\* document {meta, projects} when no step throws and 500 with {error, message} when
\* one does; never both, and it is never left unanswered (before the response a
\* step is always possible); in the dynamic variant the failure of a repository's
\* build does not produce the 500.
C11_ExactlyOneResponse ==
    /\ Len(run.sent) <= 1
    /\ run.pc # "done" => (run.sent = <<>> /\ CanGoOn)
    /\ run.pc = "done" =>
           /\ Len(run.sent) = 1
           /\ IF Threw
              THEN /\ run.sent[1].status = 500
                   /\ DOMAIN run.sent[1].body = {"error", "message"}
              ELSE /\ run.sent[1].status = 200
                   /\ DOMAIN run.sent[1].body = {"meta", "projects"}

C11_Witness ==
    /\ run.pc = "done"
    /\ ~Static
    /\ \E k \in DOMAIN input.repos : Rejects(input.repos[k])
    /\ run.sent[1].status = 200

RECURSIVE FetchedTasks(_)
\* the task names of the files whose fetch did not fail, in file order
FetchedTasks(files) ==
    IF files = <<>> THEN <<>>
    ELSE (IF Head(files).content \in {NoFile, Thrown} THEN <<>>
          ELSE LET tasks == parseChecklists(Head(files).content, Head(files).fileName)
               IN  [k \in DOMAIN tasks |-> tasks[k].name])
         \o FetchedTasks(Tail(files))

\* nothing fails but fetches of candidate files
OnlyFilesFail ==
    /\ input.discovery = "listed"
    /\ \A k \in DOMAIN input.repos : input.repos[k].fails = {}

\* C12: a failed fetch of one candidate file (non-OK response, missing content or a
\* thrown network error) makes that file contribute no task, while every other file
\* of the repository and every other repository still contribute their tasks to the
\* returned document.
C12_FileFailureIsLocal ==
    (run.pc = "done" /\ OnlyFilesFail) =>
        /\ run.sent[1].status = 200
        /\ \A k \in DOMAIN input.repos :
               \E p \in DOMAIN run.sent[1].body.projects :
                   LET project == run.sent[1].body.projects[p]
                       tasks == TasksOfMilestones(project.milestones)
                   IN  /\ project.id = LowerCase(input.repos[k].name)
                       /\ [t \in DOMAIN tasks |-> tasks[t].name]
                              = FetchedTasks(input.repos[k].files)

(***************************************************************************)
(* scanner.js: the command line, and a data.json that cannot be loaded.    *)
(***************************************************************************)
MaxArgs == 2        \* arguments of a command line

Unmatched == -1     \* an argument that is no id of the document

Flags == {"--help", "--status", "--mark-done", "--set-current", "--project"}

\* an argument: a flag, or an id
Tokens ==
    [flag : Flags, id : {Unmatched}] \cup [flag : {"id"}, id : Ids \cup {MissingId}]

ArgLists == UNION {[1..n -> Tokens] : n \in 0..MaxArgs}

\* data.json is missing, or is not JSON
Unreadable == {[unreadable |-> "missing"], [unreadable |-> "not JSON"]}

\* loadData: process.exit(1) when readFileSync or JSON.parse throws
loadData(file) == file \notin Unreadable

includes(args, flag) == \E k \in DOMAIN args : args[k].flag = flag

indexOf(args, flag) == Min1({k \in DOMAIN args : args[k].flag = flag})

\* args[idx + 1] is undefined
Undefined(args, k) == k \notin DOMAIN args

\* a command that starts with loadData
Loaded(file, result) == IF loadData(file) THEN result ELSE [exit |-> 1, data |-> file]

\* the dispatch on process.argv.slice(2): the exit status and the content of data.json
main(args, file, ts) ==
    IF includes(args, "--help") THEN [exit |-> 0, data |-> file]
    ELSE IF includes(args, "--status") THEN Loaded(file, [exit |-> 0, data |-> file])
    ELSE IF includes(args, "--mark-done")
         THEN LET idx == indexOf(args, "--mark-done")
              IN  IF Undefined(args, idx + 1) THEN [exit |-> 1, data |-> file]
                  ELSE Loaded(file, cmdMarkDone(file, args[idx + 1].id, ts))
    ELSE IF includes(args, "--set-current")
         THEN LET idx == indexOf(args, "--set-current")
              IN  IF Undefined(args, idx + 1) THEN [exit |-> 1, data |-> file]
                  ELSE Loaded(file, cmdSetCurrent(file, args[idx + 1].id, ts))
    ELSE IF includes(args, "--project")
         THEN LET idx == indexOf(args, "--project")
              IN  Loaded(file, cmdScan(file,
                                       IF Undefined(args, idx + 1) THEN MissingProject
                                       ELSE args[idx + 1].id, ts))
    ELSE Loaded(file, cmdScan(file, MissingProject, ts))

InitMain ==
    /\ store \in Documents \cup Unreadable
    /\ prev = store
    /\ last = [op |-> "none", id |-> MissingId, exit |-> 0, args |-> <<>>]
    /\ now = 1
    /\ FunIdle

\* node scanner.js args
Main(args) ==
    /\ last.op = "none"
    /\ LET r == main(args, store, now)
       IN  /\ store' = r.data
           /\ prev' = store
           /\ last' = [op |-> "main", id |-> MissingId, exit |-> r.exit, args |-> args]
    /\ now' = now + 1
    /\ UNCHANGED funVars

NextMain == \E args \in ArgLists : Main(args)

SpecMain == InitMain /\ [][NextMain]_vars

\* the command line ends with a flag that requires an id, and holds no other flag
LacksArgument(args) ==
    /\ args # <<>>
    /\ args[Len(args)].flag \in {"--mark-done", "--set-current", "--project"}
    /\ \A k \in 1..(Len(args) - 1) : args[k].flag = "id"

\* C13: an invocation that lacks a required argument (--mark-done, --set-current or
\* --project as the last argument), or that runs while data.json is missing or is
\* not JSON, exits with a non-zero status and does not write data.json (--help,
\* which runs no command, aside).
C13_BadInvocationWritesNothing ==
    (/\ last.op = "main"
     /\ \/ LacksArgument(last.args)
        \/ prev \in Unreadable /\ ~includes(last.args, "--help"))
        => (last.exit # 0 /\ store = prev)

(***************************************************************************)
(* scanner.js: calculateProgress.                                          *)
(***************************************************************************)
MaxProgressNodes == 4   \* milestones, tasks and subtasks of a project

\* the subtask lists of n subtasks, the done flags free
DoneSubtasks(n) == [1..n -> [done : BOOLEAN]]

\* the tasks of n nodes; an absent subtasks field is the empty list
DoneTasksOfSize(n) == [done : BOOLEAN, subtasks : DoneSubtasks(n - 1)]

RECURSIVE DoneTaskLists(_)
DoneTaskLists(n) ==
    IF n = 0 THEN {<<>>}
    ELSE UNION {{<<t>> \o rest : t \in DoneTasksOfSize(k), rest \in DoneTaskLists(n - k)} :
                k \in 1..n}

\* the milestones of n nodes; an absent tasks field is the empty list
DoneMilestonesOfSize(n) == [done : BOOLEAN, tasks : DoneTaskLists(n - 1)]

RECURSIVE DoneMilestoneLists(_)
DoneMilestoneLists(n) ==
    IF n = 0 THEN {<<>>}
    ELSE UNION {{<<m>> \o rest : m \in DoneMilestonesOfSize(k),
                                 rest \in DoneMilestoneLists(n - k)} : k \in 1..n}

ProgressProjects ==
    [milestones : UNION {DoneMilestoneLists(n) : n \in 0..MaxProgressNodes}]

\* total and done after a loop over items that are counted themselves
CountItems(items) ==
    [total |-> Len(items), done |-> Len(SelectSeq(items, LAMBDA x : x.done))]

Plus(a, b) == [total |-> a.total + b.total, done |-> a.done + b.done]

RECURSIVE CountTasks(_)
\* for (const t of m.tasks): the subtasks of t, or t itself
CountTasks(tasks) ==
    IF tasks = <<>> THEN [total |-> 0, done |-> 0]
    ELSE Plus(IF Len(Head(tasks).subtasks) # 0 THEN CountItems(Head(tasks).subtasks)
              ELSE CountItems(<<Head(tasks)>>),
              CountTasks(Tail(tasks)))

RECURSIVE CountMilestones(_)
\* for (const m of project.milestones): the tasks of m, or m itself
CountMilestones(milestones) ==
    IF milestones = <<>> THEN [total |-> 0, done |-> 0]
    ELSE Plus(IF Len(Head(milestones).tasks) # 0 THEN CountTasks(Head(milestones).tasks)
              ELSE CountItems(<<Head(milestones)>>),
              CountMilestones(Tail(milestones)))

\* Math.round(x) for x = a / b >= 0
Round(a, b) == (2 * a + b) \div (2 * b)

RECURSIVE CountTasksOnly(_)
CountTasksOnly(milestones) ==
    IF milestones = <<>> THEN [total |-> 0, done |-> 0]
    ELSE Plus(CountTasks(Head(milestones).tasks), CountTasksOnly(Tail(milestones)))

\* the progress mutant: a milestone without tasks is not counted
calculateProgress_SkipsBareMilestones(project) ==
    LET n == CountTasksOnly(project.milestones)
    IN  IF n.total > 0 THEN Round(n.done * 100, n.total) ELSE 0

calculateProgress(project) ==
    LET n == CountMilestones(project.milestones)
    IN  IF n.total > 0 THEN Round(n.done * 100, n.total) ELSE 0

InitProgress ==
    /\ input \in ProgressProjects
    /\ output = [op |-> "none"]
    /\ run = NoRun
    /\ store = MkDoc(<<>>)
    /\ prev = store
    /\ last = [op |-> "none", id |-> MissingId, exit |-> 0]
    /\ now = 1

CalculateProgress ==
    /\ input \in ProgressProjects
    /\ Returned("calculateProgress", calculateProgress(input))

NextProgress == CalculateProgress

SpecProgress == InitProgress /\ [][NextProgress]_vars

\* the leaves of the project: [m, t, s], with t = 0 for a milestone without tasks
\* and s = 0 for a task without subtasks
Leaves ==
    LET ms == input.milestones
    IN  {<<m, 0, 0>> : m \in {m \in DOMAIN ms : ms[m].tasks = <<>>}}
            \cup UNION {{<<m, t, 0>> : t \in {t \in DOMAIN ms[m].tasks :
                                                ms[m].tasks[t].subtasks = <<>>}} :
                        m \in DOMAIN ms}
            \cup UNION {UNION {{<<m, t, s>> : s \in DOMAIN ms[m].tasks[t].subtasks} :
                               t \in DOMAIN ms[m].tasks} : m \in DOMAIN ms}

LeafDone(x) ==
    LET ms == input.milestones
    IN  IF x[2] = 0 THEN ms[x[1]].done
        ELSE IF x[3] = 0 THEN ms[x[1]].tasks[x[2]].done
        ELSE ms[x[1]].tasks[x[2]].subtasks[x[3]].done

MaxNow == 3         \* the last reading of the clock

FirstNow == 2       \* the clock when the first invocation starts

\* what the remote answers for repository k, at both invocations
TwiceRepos(k) ==
    [name : {RepoName(k)}, found : {TRUE}, pushedAt : {NoPush, 0, 1},
     files : {<<>>} \cup {<<[content |-> c, fileName |-> FirstName]>> :
                              c \in {<<"-", " ", "[", " ", "]", " ", "a">>, Thrown}},
     fails : {{}}, commits : {[ok |-> FALSE, list |-> <<>>]}]

ServedTwice ==
    UNION {{repos \in [1..n -> UNION {TwiceRepos(k) : k \in 1..n}] :
                \A k \in 1..n : repos[k].name = RepoName(k)} : n \in 0..MaxServed}

InitTwice ==
    /\ input \in [variant : {"dynamic", "static"}, discovery : {"listed"},
                   repos : ServedTwice]
                    \cup [variant : {"dynamic"}, discovery : {"thrown"}, repos : {<<>>}]
    /\ run = [pc |-> "start", i |-> 0, promises |-> [k \in DOMAIN input.repos |-> Waiting],
              projects |-> <<>>, sent |-> <<>>, first |-> <<>>]
    /\ output = [op |-> "none"]
    /\ store = MkDoc(<<>>)
    /\ prev = store
    /\ last = [op |-> "none", id |-> MissingId, exit |-> 0]
    /\ now = FirstNow

\* time passes
Tick ==
    /\ now < MaxNow
    /\ now' = now + 1
    /\ UNCHANGED <<store, prev, last, funVars>>

\* the handler is invoked once more; `first` keeps what the first invocation sent
Again ==
    /\ run.pc = "done" /\ run.first = <<>>
    /\ Step([pc |-> "start", i |-> 0, promises |-> [k \in DOMAIN input.repos |-> Waiting],
             projects |-> <<>>, sent |-> <<>>, first |-> run.sent])

NextTwice == NextServe \/ Tick \/ Again

SpecTwice == InitTwice /\ [][NextTwice]_vars

\* the UTC day of a clock reading
ClockDay(t) == t \div DayLength

\* the whole days between a push and a clock reading
WholeDays(pushedAt, t) == (t - pushedAt) \div DayLength

Unstamped(response) == [response EXCEPT !.body.meta.lastUpdated = 0]

\* both invocations have sent a document
BothSent ==
    /\ run.pc = "done" /\ run.first # <<>>
    /\ run.first[1].status = 200 /\ run.sent[1].status = 200

\* C15 as stated: two invocations against the same remote on the same clock day send
\* documents that differ in meta.lastUpdated only, whatever the order in which the
\* builds settle.
C15_SameDaySameDocument ==
    (BothSent /\ ClockDay(FirstNow) = ClockDay(now))
        => Unstamped(run.first[1]) = Unstamped(run.sent[1])

\* C15: two invocations against the same remote send documents that differ in
\* meta.lastUpdated only, whatever the order in which the builds settle, when for
\* every repository the whole days since its push are the same at every reading of
\* the clock.
C15_SameDaysSameDocument ==
    (BothSent /\ \A k \in DOMAIN input.repos :
                     \/ input.repos[k].pushedAt = NoPush
                     \/ WholeDays(input.repos[k].pushedAt, FirstNow)
                            = WholeDays(input.repos[k].pushedAt, now))
        => Unstamped(run.first[1]) = Unstamped(run.sent[1])

C15_Witness ==
    /\ BothSent
    /\ now > FirstNow
    /\ Len(input.repos) = MaxServed
    /\ \A k \in DOMAIN input.repos : input.repos[k].pushedAt = 0
    /\ run.first[1].body.meta.lastUpdated < run.sent[1].body.meta.lastUpdated
    /\ Len(run.sent[1].body.projects) = MaxServed

(***************************************************************************)
(* scanner.js: two invocations at once against one data file.  Each is a   *)
(* process that reads the file at loadData and writes it at saveData.      *)
(***************************************************************************)
NotLoaded == <<>>

InitRace ==
    /\ store \in Documents
    /\ prev = store
    /\ last = [op |-> "none", id |-> MissingId, exit |-> 0]
    /\ now = 1
    /\ input = <<>>
    /\ output = [op |-> "none"]
    /\ run = [scan |-> [pc |-> "start", data |-> NotLoaded, id |-> MissingProject],
              edit |-> [pc |-> "start", data |-> NotLoaded, id |-> MissingId,
                        op |-> "none", exit |-> 0],
              log |-> <<>>]

\* one step of a process, which leaves the file alone
Local(next, event) ==
    /\ run' = [next EXCEPT !.log = Append(@, event)]
    /\ UNCHANGED <<store, prev, last, now, input, output>>

\* one step of a process, which writes the file
Wrote(next, event, data) ==
    /\ run' = [next EXCEPT !.log = Append(@, event)]
    /\ store' = data
    /\ now' = now + 1
    /\ UNCHANGED <<prev, last, input, output>>

\* the reread mutant: the working copy is what the file holds now
WorkingCopy_Reread(loaded, onDisk) == onDisk

\* const data = loadData(): the working copy is what the file held at that call
WorkingCopy(loaded, onDisk) == loaded

\* cmdScan: const data = loadData()
ScanLoad(projectId) ==
    /\ run.scan.pc = "start"
    /\ Local([run EXCEPT !.scan = [pc |-> "loaded", data |-> store, id |-> projectId]],
             "scan.load")

\* cmdScan: the loop over the projects, then saveData(data)
ScanSave ==
    /\ run.scan.pc = "loaded"
    /\ Wrote([run EXCEPT !.scan.pc = "done"], "scan.save",
             cmdScan(WorkingCopy(run.scan.data, store), run.scan.id, now).data)

\* cmdMarkDone, cmdSetCurrent: const data = loadData()
EditLoad(op, taskId) ==
    /\ run.edit.pc = "start"
    /\ Local([run EXCEPT !.edit = [pc |-> "loaded", data |-> store, id |-> taskId,
                                   op |-> op, exit |-> 0]],
             "edit.load")

\* what the mutation makes of its working copy
Edited ==
    LET data == WorkingCopy(run.edit.data, store)
    IN  IF run.edit.op = "mark-done" THEN cmdMarkDone(data, run.edit.id, now)
        ELSE cmdSetCurrent(data, run.edit.id, now)

\* cmdMarkDone, cmdSetCurrent: the task is found and changed, then saveData(data)
EditSave ==
    /\ run.edit.pc = "loaded" /\ Edited.exit = 0
    /\ Wrote([run EXCEPT !.edit.pc = "done"], "edit.save", Edited.data)

\* cmdMarkDone, cmdSetCurrent: the task is not found, process.exit(1)
EditExit ==
    /\ run.edit.pc = "loaded" /\ Edited.exit = 1
    /\ Local([run EXCEPT !.edit.pc = "done", !.edit.exit = 1], "edit.exit")

NextRace ==
    \/ \E projectId \in {MissingProject, 1} : ScanLoad(projectId)
    \/ ScanSave
    \/ \E op \in {"mark-done", "set-current"}, taskId \in LookupIds : EditLoad(op, taskId)
    \/ EditSave
    \/ EditExit

SpecRace == InitRace /\ [][NextRace]_vars

\* the place of an event in the log, 0 when it has not happened
At(event) ==
    IF \E k \in DOMAIN run.log : run.log[k] = event
    THEN CHOOSE k \in DOMAIN run.log : run.log[k] = event
    ELSE 0

\* the scan read the file before the mutation wrote it, and wrote it after
ScanAroundEdit ==
    /\ At("scan.load") > 0 /\ At("edit.save") > 0 /\ At("scan.save") > 0
    /\ At("scan.load") < At("edit.save") /\ At("edit.save") < At("scan.save")

\* C16: when the scan reads the store before the mutation writes it and writes it
\* after, the store ends as the scan's copy (what the scan read, stamped) and the
\* mutation's change is lost.
C16_LastWriterWins ==
    ScanAroundEdit =>
        /\ store = [saveData(run.scan.data, now - 1) EXCEPT !.meta.lastScanType = "auto"]
        /\ store.projects = run.edit.data.projects

C16_Witness ==
    /\ ScanAroundEdit
    /\ run.edit.op = "mark-done"
    /\ Edited.data.projects # run.edit.data.projects
    /\ store.projects = run.scan.data.projects

(***************************************************************************)
(* api/projects.js: ghFetch of both variants and getAllRepos of the        *)
(* dynamic-discovery variant, against a remote that answers each request   *)
(* with a body, with a status that is not ok, or not at all.               *)
(***************************************************************************)
MaxListed == 2      \* repositories in the listing of one source

GITHUB_SOURCES ==
    <<[type |-> "user", name |-> "nolimitjonesinc"],
      [type |-> "org", name |-> "Nolimit-Labs-Projects"]>>

SKIP_REPOS ==
    { <<"n", "o", "l", "i", "m", "i", "t", "j", "o", "n", "e", "s", "i", "n", "c">>,
      <<"m", "o", "c", "k", "i", "n", "g", "b", "i", "r", "d", "-", "t", "e", "s", "t">>,
      <<"s", "i", "m", "p", "l", "e", "-", "h", "e", "l", "l", "o", "-", "w", "o", "r", "l",
        "d", "-", "w", "e", "b", "-", "p", "a", "g", "e", "-", "s", "i", "n", "g", "l", "e",
        "-", "p", "a", "g", "e", "-", "t", "h", "a", "t", "-", "s", "a", "y">>,
      <<"T", "w", "i", "t", "t", "e", "r", "-", "B", "o", "t">>,
      <<"T", "a", "g", "a", "r", "o", "o">> }

\* a value of JavaScript: null, an array or another object
Null == [kind |-> "null", items |-> <<>>]

Array(items) == [kind |-> "array", items |-> items]

\* what the remote answers to a request
NotOk == [kind |-> "notOk", body |-> Null]

NetworkError == [kind |-> "thrown", body |-> Null]

Ok(body) == [kind |-> "ok", body |-> body]

\* ghFetch of the dynamic variant: without a token, null and no request
ghFetch(token, answer) ==
    IF ~token THEN [sent |-> 0, state |-> "fulfilled", value |-> Null]
    ELSE IF answer.kind = "thrown" THEN [sent |-> 1, state |-> "rejected", value |-> Null]
    ELSE IF answer.kind = "notOk" THEN [sent |-> 1, state |-> "fulfilled", value |-> Null]
    ELSE [sent |-> 1, state |-> "fulfilled", value |-> answer.body]

\* ghFetch of the configured variant: the request is sent whatever the token is
ghFetchStatic(token, answer) ==
    IF answer.kind = "thrown" THEN [sent |-> 1, state |-> "rejected", value |-> Null]
    ELSE IF answer.kind = "notOk" THEN [sent |-> 1, state |-> "fulfilled", value |-> Null]
    ELSE [sent |-> 1, state |-> "fulfilled", value |-> answer.body]

\* the dedup mutant: names are compared as they are written
SeenKey_AsWritten(name) == name

\* r.name.toLowerCase()
SeenKey(name) == LowerCase(name)

RECURSIVE Deduplicate(_, _)
\* allRepos.filter(r => ...) with the set `seen`
Deduplicate(allRepos, seen) ==
    IF allRepos = <<>> THEN <<>>
    ELSE LET r == Head(allRepos)
         IN  IF SeenKey(r.name) \in seen THEN Deduplicate(Tail(allRepos), seen)
             ELSE <<r>> \o Deduplicate(Tail(allRepos), seen \cup {SeenKey(r.name)})

\* the entries pushed for the listing of one source
Pushed(source, repos) ==
    LET kept == SelectSeq(repos, LAMBDA repo : ~repo.archived /\ repo.name \notin SKIP_REPOS)
    IN  [k \in DOMAIN kept |->
            [name |-> kept[k].name, owner |-> source.name,
             pushedAt |-> kept[k].pushed_at, isOrg |-> source.type = "org"]]

RECURSIVE SourceLoop(_, _, _, _, _)
\* the loop of getAllRepos over the sources from k on; `sent` counts the requests
SourceLoop(token, answers, k, allRepos, sent) ==
    IF k > Len(GITHUB_SOURCES)
    THEN [state |-> "fulfilled", value |-> Deduplicate(allRepos, {}), sent |-> sent]
    ELSE LET repos == ghFetch(token, answers[k])
         IN  IF repos.state = "rejected"
             THEN [state |-> "rejected", value |-> <<>>, sent |-> sent + repos.sent]
             ELSE IF repos.value.kind # "array"
             THEN SourceLoop(token, answers, k + 1, allRepos, sent + repos.sent)
             ELSE SourceLoop(token, answers, k + 1,
                             allRepos \o Pushed(GITHUB_SOURCES[k], repos.value.items),
                             sent + repos.sent)

getAllRepos(token, answers) == SourceLoop(token, answers, 1, <<>>, 0)

\* the repository that buildProjectData is given for an entry of getAllRepos, on a
\* remote that holds no file and no commit for it
DiscoveredAt(entry, t) ==
    [name |-> entry.name, found |-> TRUE, days |-> DaysSinceUpdate(entry.pushedAt, t),
     files |-> <<>>, commits |-> [ok |-> FALSE, list |-> <<>>]]

\* the projects of the document the dynamic handler sends, the response being 200
handlerProjects(token, answers, t) ==
    LET repos == getAllRepos(token, answers)
    IN  IF repos.state = "rejected" THEN [status |-> 500, projects |-> <<>>]
        ELSE [status |-> 200,
              projects |-> handler([k \in DOMAIN repos.value |->
                                       DiscoveredAt(repos.value[k], t)], t).projects]

\* the repositories a source may list
ListedNames == {RepoName(1), LowerCase(RepoName(1)), <<"T", "a", "g", "a", "r", "o", "o">>}

ListedRepos == [name : ListedNames, archived : BOOLEAN, pushed_at : {1}]

Listings == UNION {[1..n -> ListedRepos] : n \in 0..MaxListed}

Answers ==
    {NotOk, NetworkError, Ok([kind |-> "object", items |-> <<>>])}
        \cup {Ok(Array(repos)) : repos \in Listings}

InitRemote ==
    /\ input \in [variant : {"dynamic"}, token : BOOLEAN,
                  answers : [DOMAIN GITHUB_SOURCES -> Answers]]
                    \cup [variant : {"static"}, token : BOOLEAN, answers : [{1} -> Answers]]
    /\ output = [op |-> "none"]
    /\ run = NoRun
    /\ store = MkDoc(<<>>)
    /\ prev = store
    /\ last = [op |-> "none", id |-> MissingId, exit |-> 0]
    /\ now = 1

\* one remote call, of either variant
CallGhFetch ==
    Returned("ghFetch", IF input.variant = "static"
                        THEN ghFetchStatic(input.token, input.answers[1])
                        ELSE ghFetch(input.token, input.answers[1]))

CallGetAllRepos ==
    /\ input.variant = "dynamic"
    /\ Returned("getAllRepos", getAllRepos(input.token, input.answers))

CallHandler ==
    /\ input.variant = "dynamic"
    /\ Returned("handler", handlerProjects(input.token, input.answers, now))

NextRemote == CallGhFetch \/ CallGetAllRepos \/ CallHandler

SpecRemote == InitRemote /\ [][NextRemote]_vars

\* getAllRepos has returned a list
Listed == output.op = "getAllRepos" /\ output.value.state = "fulfilled"

\* the listing of source k failed: the status was not ok, no token, or no array came
ListingFailed(k) ==
    \/ ~input.token
    \/ input.answers[k].kind = "notOk"
    \/ input.answers[k].kind = "ok" /\ input.answers[k].body.kind # "array"

\* the repositories that count, in discovery order, each with the source listing it
Candidates ==
    LET Of(k) == IF ListingFailed(k) THEN <<>>
                 ELSE LET repos == input.answers[k].body.items
                          ok == SelectSeq(repos, LAMBDA r : ~r.archived
                                                           /\ r.name \notin SKIP_REPOS)
                      IN  [n \in DOMAIN ok |->
                              [name |-> ok[n].name, owner |-> GITHUB_SOURCES[k].name]]
    IN  Of(1) \o Of(2)

\* name a is name b, ignoring case
SameName(a, b) == LowerCase(a) = LowerCase(b)

\* the candidates that come first under their name
FirstSeen ==
    {k \in DOMAIN Candidates :
        \A j \in 1..(k - 1) : ~SameName(Candidates[j].name, Candidates[k].name)}

C26_NoTokenNoRequest ==
    ~input.token =>
        /\ output.op = "ghFetch" =>
               /\ output.value.sent = 0
               /\ output.value.state = "fulfilled" /\ output.value.value = Null
        /\ output.op = "getAllRepos" =>
               /\ output.value.sent = 0
               /\ output.value.state = "fulfilled" /\ output.value.value = <<>>
        /\ output.op = "handler" =>
               output.value.status = 200 /\ output.value.projects = <<>>

(***************************************************************************)
(* api/projects.js: the handler on more repositories than a batch holds.   *)
(***************************************************************************)
MaxBatched == 9     \* repositories of an invocation, more than batchSize

\* a repository without files; its build fails when the commit listing throws
BatchedRepo(k, fails) ==
    [name |-> RepoName(k), found |-> TRUE, pushedAt |-> 1, files |-> <<>>,
     fails |-> IF fails THEN {"commits"} ELSE {},
     commits |-> [ok |-> FALSE, list |-> <<>>]]

\* the repositories discovered: the first, the last of the first batch and the last
\* of all may fail
Batched ==
    {[k \in 1..n |-> BatchedRepo(k, k \in failing)] :
        n \in {MaxBatched}, failing \in SUBSET {1, batchSize, MaxBatched}}

InitBatch ==
    /\ input \in [variant : {"dynamic"}, discovery : {"listed"}, repos : Batched]
                    \cup [variant : {"dynamic"}, discovery : {"thrown"}, repos : {<<>>}]
                    \cup [variant : {"static"}, discovery : {"listed"},
                          repos : {<<BatchedRepo(1, fails)>> : fails \in BOOLEAN}]
    /\ run = [pc |-> "start", i |-> 0, promises |-> [k \in DOMAIN input.repos |-> Waiting],
              projects |-> <<>>, sent |-> <<>>]
    /\ output = [op |-> "none"]
    /\ store = MkDoc(<<>>)
    /\ prev = store
    /\ last = [op |-> "none", id |-> MissingId, exit |-> 0]
    /\ now = 1

SpecBatch == InitBatch /\ [][NextServe]_vars

\* the builds in flight
InFlight == {k \in DOMAIN run.promises : run.promises[k].state = "pending"}

\* the batch a build belongs to, counted from 0
BatchOf(k) == (k - 1) \div 8

MaxTasks == 2       \* tasks of a section

\* String(index).padStart(2, '0')
PadStart2(str) == IF Len(str) < 2 THEN <<"0">> \o str ELSE str

\* the line mutant: the box of a task that is not done is written empty
TaskLine_EmptyBox(task) ==
    <<"-", " ", "[">> \o (IF task.done THEN <<"x">> ELSE <<>>) \o <<"]", " ">>
        \o task.text \o <<"\n">>

\* `- [${check}] ${task.text}\n`
TaskLine(task) ==
    <<"-", " ", "[">> \o (IF task.done THEN <<"x">> ELSE <<" ">>) \o <<"]", " ">>
        \o task.text \o <<"\n">>

RECURSIVE TaskLines(_)
TaskLines(tasks) ==
    IF tasks = <<>> THEN <<>> ELSE TaskLine(Head(tasks)) \o TaskLines(Tail(tasks))

\* the backquote of the Source line; the parsers tell it from no other plain character
Backquote == "'"

\* the line "> Progress: ${doneCount}/${totalCount} tasks done"
ProgressLine(d, t) ==
    <<">", " ", "P", "r", "o", "g", "r", "e", "s", "s", ":", " ">>
        \o Decimal(d) \o <<"/">> \o Decimal(t)
        \o <<" ", "t", "a", "s", "k", "s", " ", "d", "o", "n", "e">>

generateTaskFile(section, index) ==
    LET num == PadStart2(Decimal(index))
        slug == slugify(section.heading)
        doneCount == Len(SelectSeq(section.tasks, LAMBDA t : t.done))
        totalCount == Len(section.tasks)
    IN  [fileName |-> num \o <<"-">> \o slug \o <<".", "m", "d">>,
         content |->
             <<"#", " ">> \o section.heading \o <<"\n", "\n">>
             \o <<">", " ", "S", "o", "u", "r", "c", "e", ":", " ", Backquote>>
             \o section.source \o <<Backquote, "\n">>
             \o ProgressLine(doneCount, totalCount) \o <<"\n", "\n">>
             \o <<"#", "#", " ", "T", "a", "s", "k", "s">> \o <<"\n", "\n">>
             \o TaskLines(section.tasks)]

\* task texts: not empty, of one line, trimmed
TaskTexts ==
    { <<"a">>, <<"b", " ", "c">>, <<"[", "x", "]", " ", "b">>, <<"#", " ", "t">> }

TasksGiven == UNION {[1..n -> [done : BOOLEAN, text : TaskTexts]] : n \in 0..MaxTasks}

Sections ==
    [heading : {<<"h">>, <<"T", " ", "-", " ", "m">>},
     level : {2},
     tasks : TasksGiven,
     source : {FirstName}]

InitGenerate ==
    /\ input \in [section : Sections, index : {1, 12}]
    /\ output = [op |-> "none"]
    /\ run = NoRun
    /\ store = MkDoc(<<>>)
    /\ prev = store
    /\ last = [op |-> "none", id |-> MissingId, exit |-> 0]
    /\ now = 1

GenerateTaskFile ==
    Returned("generateTaskFile", generateTaskFile(input.section, input.index))

\* the file generated, read by parsePRD
GenerateThenParsePRD ==
    LET file == generateTaskFile(input.section, input.index)
    IN  Returned("parsePRD", [file |-> file,
                              tasks |-> TasksOfSections(parsePRD(file.content,
                                                                 file.fileName))])

\* the file generated, read by parseChecklists
GenerateThenParseChecklists ==
    LET file == generateTaskFile(input.section, input.index)
        tasks == parseChecklists(file.content, file.fileName)
    IN  Returned("parseChecklists",
                 [file |-> file,
                  tasks |-> [k \in DOMAIN tasks |->
                                [done |-> tasks[k].done, text |-> tasks[k].name]]])

NextGenerate == GenerateTaskFile \/ GenerateThenParsePRD \/ GenerateThenParseChecklists

SpecGenerate == InitGenerate /\ [][NextGenerate]_vars

\* C29: the bullet checklist parsers read from the content generateTaskFile writes
\* the tasks of the section, as many, in the same order, with the same text and the
\* same done flag, and the Progress line of the content counts the done tasks and
\* all tasks.
C29_GenerateThenParse ==
    /\ output.op \in {"parsePRD", "parseChecklists"} =>
           output.value.tasks = input.section.tasks
    /\ output.op = "generateTaskFile" =>
           \E k \in DOMAIN Split(output.value.content) :
               Split(output.value.content)[k]
                   = ProgressLine(Cardinality({n \in DOMAIN input.section.tasks :
                                                  input.section.tasks[n].done}),
                                  Len(input.section.tasks))

C29_Witness ==
    /\ output.op = "parsePRD"
    /\ Len(input.section.tasks) = 2
    /\ input.section.tasks[1].done /\ input.section.tasks[1].text = <<"[", "x", "]", " ", "b">>
    /\ ~input.section.tasks[2].done
    /\ Len(output.value.tasks) = 2

====
